---------------------------- MODULE Spec2Model ----------------------------
(***************************************************************************)
(* LUKS2 token layer: the handler registry, the token store, the           *)
(* token/keyslot assignment index and the activation orchestrator of       *)
(* lib/luks2/luks2_token.c, and the TPM2 token plugin (create, open,       *)
(* remove, device binding).                                                *)
(***************************************************************************)
EXTENDS Integers, Sequences, FiniteSets, TLC

VARIABLES
    tokens,          \* hdr->jobj "tokens": insertion-ordered <<[id, doc]>>
    keyslots,        \* hdr->jobj "keyslots": insertion-ordered keyslot ids
    token_handlers,  \* the occupied prefix of token_handlers[]
    call,            \* the last call made on the header, with its result
    tpms,            \* the TPM backends: the resident daemon, then the devices
    tc,              \* struct tpm2_context: the plugin handle and its progress
    act              \* the activation request in progress

vars == <<tokens, keyslots, token_handlers, call, tpms, tc, act>>

(***************************************************************************)
(* Bounds and program constants                                            *)
(***************************************************************************)
\* LUKS2_TOKENS_MAX (32 in the program) scaled down: token table and
\* handler table capacity.
LUKS2_TOKENS_MAX == 3
\* LUKS2_KEYSLOTS_MAX (32 in the program) scaled down.
LUKS2_KEYSLOTS_MAX == 2
\* Size of the header's JSON area left for the token records.
JsonAreaSize == 12
\* Serialized size of the large payload member a token text may carry.
BigPad == 8
\* Number of /dev/tpmrm<i> devices a machine has besides the resident daemon.
MaxTpmDevices == 2
\* Number of NV indices a backend offers.
MaxNvIndex == 2

EPERM == 1
ENOENT == 2
EIO == 5
EAGAIN == 11
ENOMEM == 12
EACCES == 13
EINVAL == 22
ENOSPC == 28
ECOMM == 70
ENOTSUP == 95

CRYPT_ANY_TOKEN == -1
CRYPT_ANY_SLOT == -1
NV_NONCE_SIZE == 32
TPMS_NO_LIMIT == 100

TokenIds == 0 .. (LUKS2_TOKENS_MAX - 1)
KeyslotIds == 0 .. (LUKS2_KEYSLOTS_MAX - 1)

(***************************************************************************)
(* Strings and numbers: snprintf("%d") and atoi on slot numbers            *)
(***************************************************************************)
Digits == <<"0", "1", "2", "3", "4", "5", "6", "7", "8", "9">>

\* snprintf(num, sizeof(num), "%d", n) for the slot numbers of the model
NumStr(n) == Digits[n + 1]

\* atoi(s)
atoi(s) == IF \E n \in 0 .. 9 : Digits[n + 1] = s
           THEN CHOOSE n \in 0 .. 9 : Digits[n + 1] = s
           ELSE 0

RECURSIVE SeqSum(_)
SeqSum(s) == IF s = <<>> THEN 0 ELSE Head(s) + SeqSum(Tail(s))

(***************************************************************************)
(* Token type names and handlers                                           *)
(***************************************************************************)
LUKS2_TOKEN_KEYRING == "luks2-keyring"
TypeNames == {"luks2-keyring", "luks2-other", "tpm2", "ext"}

\* is_builtin_candidate: the name starts with the prefix "luks2-"
is_builtin_candidate(type) == type \in {"luks2-keyring", "luks2-other"}

\* the builtin keyring handler: open, validate, dump
KeyringHandler ==
    [name |-> LUKS2_TOKEN_KEYRING, version |-> 1,
     caps |-> {"open", "validate", "dump"}]

\* The symbols a loadable libcryptsetup-token-<name>.so exports; NoLib when
\* dlopen fails.
Symbols == {"open", "open_pin", "validate", "dump", "buffer_free", "version"}
NoLib == {"-"}
\* the symbols of the TPM2 plugin
Tpm2Lib == {"open", "open_pin", "validate", "dump", "version"}

token_validate_v1(lib) == "open" \in lib

token_validate_v2(lib) == token_validate_v1(lib) /\ "version" \in lib

\* the characters of the names of the model
NameChars(name) ==
    CASE name = "luks2-keyring" ->
            <<"l", "u", "k", "s", "2", "-", "k", "e", "y", "r", "i", "n", "g">>
      [] name = "luks2-other" -> <<"l", "u", "k", "s", "2", "-", "o", "t", "h", "e", "r">>
      [] name = "tpm2" -> <<"t", "p", "m", "2">>
      [] name = "ext" -> <<"e", "x", "t">>
      [] name = "a/b" -> <<"a", "/", "b">>
      [] OTHER -> <<>>

\* isalnum on the characters the names of the model are written with
isalnum(c) ==
    c \in {"a", "b", "e", "g", "h", "i", "k", "l", "m", "n", "o", "p", "r", "s", "t",
           "u", "x", "y", "2"}

\* external_token_name_valid: not empty, only alphanumerics, '-' and '_'
\* (no name of the model is longer than LUKS2_TOKEN_NAME_MAX)
external_token_name_valid(name) ==
    /\ NameChars(name) # <<>>
    /\ \A i \in 1 .. Len(NameChars(name)) :
          isalnum(NameChars(name)[i]) \/ NameChars(name)[i] \in {"-", "_"}

\* a loader that registers whatever library dlopen finds
crypt_token_load_external_unvalidated(name, lib) ==
    IF ~external_token_name_valid(name) \/ lib = NoLib
    THEN [r |-> -EINVAL, h |-> KeyringHandler, dlopened |-> FALSE, dlclosed |-> FALSE]
    ELSE [r |-> 0, h |-> [name |-> name, version |-> 2, caps |-> lib \ {"version"}],
          dlopened |-> TRUE, dlclosed |-> FALSE]

\* crypt_token_load_external: [r, h, dlopened, dlclosed]
crypt_token_load_external(name, lib) ==
    IF ~external_token_name_valid(name)
    THEN [r |-> -EINVAL, h |-> KeyringHandler, dlopened |-> FALSE, dlclosed |-> FALSE]
    ELSE IF lib = NoLib
    THEN [r |-> -EINVAL, h |-> KeyringHandler, dlopened |-> FALSE, dlclosed |-> FALSE]
    ELSE IF ~token_validate_v2(lib)
    THEN [r |-> -EINVAL, h |-> KeyringHandler, dlopened |-> TRUE, dlclosed |-> TRUE]
    ELSE [r |-> 0, h |-> [name |-> name, version |-> 2, caps |-> lib \ {"version"}],
          dlopened |-> TRUE, dlclosed |-> FALSE]

\* a lookup that calls the loader for every name it does not find
LUKS2_token_handler_type_loads_any(th, type, lib) ==
    IF \E i \in 1 .. Len(th) : th[i].name = type
    THEN [found |-> TRUE,
          h |-> th[CHOOSE i \in 1 .. Len(th) : th[i].name = type],
          handlers |-> th, loaded |-> FALSE,
          load |-> [r |-> 0, h |-> KeyringHandler, dlopened |-> FALSE,
                    dlclosed |-> FALSE]]
    ELSE IF Len(th) >= LUKS2_TOKENS_MAX
    THEN [found |-> FALSE, h |-> KeyringHandler, handlers |-> th, loaded |-> FALSE,
          load |-> [r |-> 0, h |-> KeyringHandler, dlopened |-> FALSE,
                    dlclosed |-> FALSE]]
    ELSE LET l == crypt_token_load_external(type, lib)
         IN IF l.r # 0
            THEN [found |-> FALSE, h |-> KeyringHandler, handlers |-> th,
                  loaded |-> TRUE, load |-> l]
            ELSE [found |-> TRUE, h |-> l.h, handlers |-> Append(th, l.h),
                  loaded |-> TRUE, load |-> l]

\* LUKS2_token_handler_type: [found, h, handlers, loaded, load]; a miss on
\* a name without the builtin prefix loads the external handler into the
\* first free slot.  loaded tells whether crypt_token_load_external was
\* called, load is what it returned.
NoLoad == [r |-> 0, h |-> KeyringHandler, dlopened |-> FALSE, dlclosed |-> FALSE]

LUKS2_token_handler_type(th, type, lib) ==
    IF \E i \in 1 .. Len(th) : th[i].name = type
    THEN [found |-> TRUE,
          h |-> th[CHOOSE i \in 1 .. Len(th) : th[i].name = type],
          handlers |-> th, loaded |-> FALSE, load |-> NoLoad]
    ELSE IF Len(th) >= LUKS2_TOKENS_MAX
    THEN [found |-> FALSE, h |-> KeyringHandler, handlers |-> th, loaded |-> FALSE,
          load |-> NoLoad]
    ELSE IF is_builtin_candidate(type)
    THEN [found |-> FALSE, h |-> KeyringHandler, handlers |-> th, loaded |-> FALSE,
          load |-> NoLoad]
    ELSE LET l == crypt_token_load_external(type, lib)
         IN IF l.r # 0
            THEN [found |-> FALSE, h |-> KeyringHandler, handlers |-> th,
                  loaded |-> TRUE, load |-> l]
            ELSE [found |-> TRUE, h |-> l.h, handlers |-> Append(th, l.h),
                  loaded |-> TRUE, load |-> l]

\* a search for a free slot that does not look at the names in the table
crypt_token_find_free_no_lookup(th, name) ==
    IF is_builtin_candidate(name) THEN [r |-> -EINVAL, index |-> 0]
    ELSE IF Len(th) = LUKS2_TOKENS_MAX THEN [r |-> -EINVAL, index |-> 0]
    ELSE [r |-> 0, index |-> Len(th)]

\* crypt_token_find_free: [r, index], index counted from 0
crypt_token_find_free(th, name) ==
    IF is_builtin_candidate(name) THEN [r |-> -EINVAL, index |-> 0]
    ELSE IF \E i \in 1 .. Len(th) : th[i].name = name THEN [r |-> -EINVAL, index |-> 0]
    ELSE IF Len(th) = LUKS2_TOKENS_MAX THEN [r |-> -EINVAL, index |-> 0]
    ELSE [r |-> 0, index |-> Len(th)]

\* a crypt_token_handler a caller passes to crypt_token_register: its name
\* (NoName for NULL) and the functions it provides
NoName == ""

\* crypt_token_register: [r, handlers]
crypt_token_register(th, handler) ==
    LET free == crypt_token_find_free(th, handler.name)
    IN IF handler.name = NoName \/ ~token_validate_v1(handler.caps)
       THEN [r |-> -EINVAL, handlers |-> th]
       ELSE IF free.r < 0 THEN [r |-> free.r, handlers |-> th]
       ELSE [r |-> 0,
             handlers |-> [i \in 1 .. (Len(th) + 1) |->
                             IF i = free.index + 1
                             THEN [name |-> handler.name, version |-> 1,
                                   caps |-> handler.caps]
                             ELSE th[i]]]

(***************************************************************************)
(* JSON texts and documents                                                *)
(* A text is what a caller passes or reads: well-formed or not, with or    *)
(* without insignificant whitespace, its members in written order (a key   *)
(* may repeat).  A document is the parsed object: members with distinct    *)
(* keys in insertion order.                                                *)
(***************************************************************************)
NoJson == [null |-> TRUE, wf |-> FALSE, ws |-> FALSE, mem |-> <<>>]

Text(ws, mem) == [null |-> FALSE, wf |-> TRUE, ws |-> ws, mem |-> mem]

BadText == [null |-> FALSE, wf |-> FALSE, ws |-> FALSE, mem |-> <<>>]

HasKey(doc, k) == \E i \in 1 .. Len(doc) : doc[i].k = k

\* json_object_object_get_ex
ObjectGet(doc, k) == doc[CHOOSE i \in 1 .. Len(doc) : doc[i].k = k].v

\* json_object_object_add: an existing key keeps its place and takes the
\* new value, a new key is appended
ObjectAdd(doc, k, v) ==
    IF HasKey(doc, k)
    THEN [i \in 1 .. Len(doc) |-> IF doc[i].k = k THEN [k |-> k, v |-> v] ELSE doc[i]]
    ELSE Append(doc, [k |-> k, v |-> v])

\* json_object_object_del
ObjectDel(doc, k) == SelectSeq(doc, LAMBDA m : m.k # k)

RECURSIVE ParseMembers(_, _)
ParseMembers(mem, doc) ==
    IF mem = <<>> THEN doc
    ELSE ParseMembers(Tail(mem), ObjectAdd(doc, Head(mem).k, Head(mem).v))

\* json_tokener_parse_verbose of a well-formed text
Parse(text) == ParseMembers(text.mem, <<>>)

\* json_object_to_json_string_ext(PLAIN | NOSLASHESCAPE): compact
token_json_to_string(doc) == Text(FALSE, doc)

\* Two well-formed texts are semantically equal when they denote the same
\* object: the same keys with the same values.
SemEq(a, b) ==
    LET da == Parse(a)
        db == Parse(b)
    IN /\ {da[i].k : i \in 1 .. Len(da)} = {db[i].k : i \in 1 .. Len(db)}
       /\ \A i \in 1 .. Len(da) : ObjectGet(db, da[i].k) = da[i].v

\* serialized length of a member and of a document
MemberLen(m) ==
    IF m.k = "keyslots" THEN 1 + Len(m.v)
    ELSE IF m.k = "pad" THEN m.v
    ELSE 1

DocLen(doc) == SeqSum([i \in 1 .. Len(doc) |-> MemberLen(doc[i])])

\* the token texts callers pass to create
TokenText(type, ks, pad) ==
    Text(FALSE, <<[k |-> "type", v |-> type], [k |-> "keyslots", v |-> ks]>>
                \o (IF pad > 0 THEN <<[k |-> "pad", v |-> pad]>> ELSE <<>>))

\* a text with whitespace and a repeated key
LooseText ==
    Text(TRUE, <<[k |-> "type", v |-> "ext"], [k |-> "keyslots", v |-> <<>>],
                 [k |-> "type", v |-> "tpm2"]>>)

NoTypeText == Text(FALSE, <<[k |-> "keyslots", v |-> <<>>]>>)

JsonTexts ==
    {BadText, NoTypeText, LooseText}
    \cup {TokenText(t, <<>>, p) : t \in {"luks2-keyring", "tpm2"}, p \in {0, BigPad}}
    \cup {TokenText("tpm2", <<NumStr(0)>>, 0), TokenText("luks2-other", <<>>, 0)}

(***************************************************************************)
(* Header access                                                           *)
(***************************************************************************)
HasToken(tk, id) == \E i \in 1 .. Len(tk) : tk[i].id = id

\* LUKS2_get_token_jobj
LUKS2_get_token_jobj(tk, id) == tk[CHOOSE i \in 1 .. Len(tk) : tk[i].id = id].doc

TokensAdd(tk, id, doc) ==
    IF HasToken(tk, id)
    THEN [i \in 1 .. Len(tk) |-> IF tk[i].id = id THEN [id |-> id, doc |-> doc] ELSE tk[i]]
    ELSE Append(tk, [id |-> id, doc |-> doc])

TokensDel(tk, id) == SelectSeq(tk, LAMBDA e : e.id # id)

\* LUKS2_check_json_size: nonzero when the serialized header does not fit
LUKS2_check_json_size(tk) ==
    SeqSum([i \in 1 .. Len(tk) |-> DocLen(tk[i].doc)]) > JsonAreaSize

\* LUKS2_token_validate: nonzero unless the record has a type and a
\* keyslots array
LUKS2_token_validate(doc) == ~(HasKey(doc, "type") /\ HasKey(doc, "keyslots"))

\* LUKS2_hdr_write(cd, hdr) ?: token
Commit(commit, wr, token) == IF commit /\ wr # 0 THEN wr ELSE token

\* LUKS2_token_find_free that takes the id after the records of the map
LUKS2_token_find_free_after_last(tk) ==
    IF Len(tk) < LUKS2_TOKENS_MAX THEN Len(tk) ELSE -EINVAL

\* LUKS2_token_find_free
LUKS2_token_find_free(tk) ==
    IF \E i \in TokenIds : ~HasToken(tk, i)
    THEN CHOOSE i \in TokenIds : ~HasToken(tk, i) /\ \A j \in 0 .. (i - 1) : HasToken(tk, j)
    ELSE -EINVAL

(***************************************************************************)
(* TokenStore                                                              *)
(***************************************************************************)
\* TokenWrite with the record added under the key of the first free slot
\* instead of num
TokenWrite_first_free(tk, token, doc) ==
    LET slot == IF LUKS2_token_find_free(tk) >= 0 THEN LUKS2_token_find_free(tk) ELSE token
        added == TokensAdd(tk, slot, doc)
    IN IF LUKS2_check_json_size(added)
       THEN [r |-> -ENOSPC, tokens |-> TokensDel(added, slot)]
       ELSE [r |-> 0, tokens |-> added]

\* The write of LUKS2_token_create with its size check: the record is added
\* under num and, when the header no longer fits, the key num is deleted.
TokenWrite(tk, token, doc) ==
    LET added == TokensAdd(tk, token, doc)
    IN IF LUKS2_check_json_size(added)
       THEN [r |-> -ENOSPC, tokens |-> TokensDel(added, token)]
       ELSE [r |-> 0, tokens |-> added]

\* LUKS2_token_create that adds the record to the token map before the
\* handler's validate is asked
LUKS2_token_create_adds_first(tk, th, token0, json, commit, lib, vrej, wr) ==
    LET token == IF token0 = CRYPT_ANY_TOKEN /\ ~json.null
                 THEN LUKS2_token_find_free(tk) ELSE token0
        fail == [r |-> -EINVAL, tokens |-> tk, handlers |-> th]
    IN IF token0 = CRYPT_ANY_TOKEN /\ json.null THEN fail
       ELSE IF token < 0 \/ token >= LUKS2_TOKENS_MAX THEN fail
       ELSE IF json.null
       THEN [r |-> Commit(commit, wr, token), tokens |-> TokensDel(tk, token),
             handlers |-> th]
       ELSE IF ~json.wf THEN fail
       ELSE LET jobj == Parse(json)
            IN IF LUKS2_token_validate(jobj) THEN fail
               ELSE LET type == ObjectGet(jobj, "type")
                        res == LUKS2_token_handler_type(th, type, lib)
                        w == TokenWrite(tk, token, jobj)
                    IN IF is_builtin_candidate(type) /\ ~res.found
                       THEN [fail EXCEPT !.handlers = res.handlers]
                       ELSE IF res.found /\ "validate" \in res.h.caps /\ vrej
                       THEN [r |-> -EINVAL, tokens |-> w.tokens, handlers |-> res.handlers]
                       ELSE IF w.r < 0
                       THEN [r |-> w.r, tokens |-> w.tokens, handlers |-> res.handlers]
                       ELSE [r |-> Commit(commit, wr, token), tokens |-> w.tokens,
                             handlers |-> res.handlers]

\* LUKS2_token_create: [r, tokens, handlers].  lib is what dlopen finds for
\* the record's type, vrej the verdict of the handler's validate, wr the
\* result of LUKS2_hdr_write.
LUKS2_token_create(tk, th, token0, json, commit, lib, vrej, wr) ==
    LET token == IF token0 = CRYPT_ANY_TOKEN /\ ~json.null
                 THEN LUKS2_token_find_free(tk) ELSE token0
        fail == [r |-> -EINVAL, tokens |-> tk, handlers |-> th]
    IN IF token0 = CRYPT_ANY_TOKEN /\ json.null THEN fail
       ELSE IF token < 0 \/ token >= LUKS2_TOKENS_MAX THEN fail
       ELSE IF json.null
       THEN [r |-> Commit(commit, wr, token), tokens |-> TokensDel(tk, token),
             handlers |-> th]
       ELSE IF ~json.wf THEN fail
       ELSE LET jobj == Parse(json)
            IN IF LUKS2_token_validate(jobj) THEN fail
               ELSE LET type == ObjectGet(jobj, "type")
                        res == LUKS2_token_handler_type(th, type, lib)
                        w == TokenWrite(tk, token, jobj)
                    IN IF is_builtin_candidate(type) /\ ~res.found
                       THEN [fail EXCEPT !.handlers = res.handlers]
                       ELSE IF res.found /\ "validate" \in res.h.caps /\ vrej
                       THEN [fail EXCEPT !.handlers = res.handlers]
                       ELSE IF w.r < 0
                       THEN [r |-> w.r, tokens |-> w.tokens, handlers |-> res.handlers]
                       ELSE [r |-> Commit(commit, wr, token), tokens |-> w.tokens,
                             handlers |-> res.handlers]

\* LUKS2_token_json_get: [r, json]
LUKS2_token_json_get(tk, token) ==
    IF ~HasToken(tk, token) THEN [r |-> -EINVAL, json |-> NoJson]
    ELSE [r |-> 0, json |-> token_json_to_string(LUKS2_get_token_jobj(tk, token))]

\* LUKS2_tokens_count
LUKS2_tokens_count(tk) == Len(tk)

(***************************************************************************)
(* AssignmentIndex                                                         *)
(***************************************************************************)
\* LUKS2_array_jobj: the array holds the string num
LUKS2_array_jobj(array, num) == \E i \in 1 .. Len(array) : array[i] = num

\* LUKS2_array_remove: the array without num
LUKS2_array_remove(array, num) == SelectSeq(array, LAMBDA s : s # num)

\* assign_one_keyslot with the lookup before the add lost: the keyslot is
\* appended even when the array holds it
assign_one_keyslot_always_adds(tk, token, keyslot, assign) ==
    IF ~HasToken(tk, token) THEN [r |-> -EINVAL, tokens |-> tk]
    ELSE LET jobj_token == LUKS2_get_token_jobj(tk, token)
             num == NumStr(keyslot)
             arr == ObjectGet(jobj_token, "keyslots")
         IN [r |-> 0,
             tokens |-> TokensAdd(tk, token,
                 ObjectAdd(jobj_token, "keyslots",
                           IF assign THEN Append(arr, num)
                           ELSE LUKS2_array_remove(arr, num)))]

\* assign_one_keyslot: [r, tokens]
assign_one_keyslot(tk, token, keyslot, assign) ==
    IF ~HasToken(tk, token) THEN [r |-> -EINVAL, tokens |-> tk]
    ELSE LET jobj_token == LUKS2_get_token_jobj(tk, token)
             num == NumStr(keyslot)
         IN IF ~HasKey(jobj_token, "keyslots") THEN [r |-> -EINVAL, tokens |-> tk]
            ELSE LET arr == ObjectGet(jobj_token, "keyslots")
                 IN IF assign
                    THEN IF LUKS2_array_jobj(arr, num) THEN [r |-> 0, tokens |-> tk]
                         ELSE [r |-> 0,
                               tokens |-> TokensAdd(tk, token,
                                   ObjectAdd(jobj_token, "keyslots", Append(arr, num)))]
                    ELSE IF ~LUKS2_array_jobj(arr, num) THEN [r |-> 0, tokens |-> tk]
                         ELSE [r |-> 0,
                               tokens |-> TokensAdd(tk, token,
                                   ObjectAdd(jobj_token, "keyslots",
                                             LUKS2_array_remove(arr, num)))]

\* the json_object_object_foreach over the keyslots of assign_one_token,
\* left at the first failure
RECURSIVE ForeachKeyslot(_, _, _, _)
ForeachKeyslot(tk, ks, token, assign) ==
    IF ks = <<>> THEN [r |-> 0, tokens |-> tk]
    ELSE LET one == assign_one_keyslot(tk, token, Head(ks), assign)
         IN IF one.r < 0 THEN one
            ELSE ForeachKeyslot(one.tokens, Tail(ks), token, assign)

\* assign_one_token: [r, tokens]
assign_one_token(tk, ks, keyslot, token, assign) ==
    IF ~HasToken(tk, token) THEN [r |-> -EINVAL, tokens |-> tk]
    ELSE IF keyslot = CRYPT_ANY_SLOT THEN ForeachKeyslot(tk, ks, token, assign)
    ELSE assign_one_keyslot(tk, token, keyslot, assign)

\* the json_object_object_foreach over the tokens of LUKS2_token_assign:
\* ids are the keys of the token map in its stored order
RECURSIVE ForeachToken(_, _, _, _, _)
ForeachToken(tk, ks, ids, keyslot, assign) ==
    IF ids = <<>> THEN [r |-> 0, tokens |-> tk]
    ELSE LET one == assign_one_token(tk, ks, keyslot, Head(ids), assign)
         IN IF one.r < 0 THEN one
            ELSE ForeachToken(one.tokens, ks, Tail(ids), keyslot, assign)

\* LUKS2_token_assign: [r0, r, tokens]; r0 is r before the commit
LUKS2_token_assign(tk, ks, keyslot, token, assign, commit, wr) ==
    LET res == IF token = CRYPT_ANY_TOKEN
               THEN ForeachToken(tk, ks, [i \in 1 .. Len(tk) |-> tk[i].id], keyslot, assign)
               ELSE assign_one_token(tk, ks, keyslot, token, assign)
    IN IF res.r < 0 THEN [r0 |-> res.r, r |-> res.r, tokens |-> res.tokens]
       ELSE [r0 |-> res.r, r |-> Commit(commit, wr, token), tokens |-> res.tokens]

\* token_is_assigned: 0 when the keyslot is in the token's array
token_is_assigned(tk, keyslot, token) ==
    IF ~HasToken(tk, token) THEN -ENOENT
    ELSE LET arr == ObjectGet(LUKS2_get_token_jobj(tk, token), "keyslots")
         IN IF \E i \in 1 .. Len(arr) : keyslot = atoi(arr[i]) THEN 0 ELSE -ENOENT

\* LUKS2_token_is_assigned
LUKS2_token_is_assigned(tk, keyslot, token) ==
    IF keyslot < 0 \/ keyslot >= LUKS2_KEYSLOTS_MAX
       \/ token < 0 \/ token >= LUKS2_TOKENS_MAX
    THEN -EINVAL
    ELSE token_is_assigned(tk, keyslot, token)

\* the loop of LUKS2_token_assignment_copy over token ids i .. MAX-1
RECURSIVE CopyLoop(_, _, _, _, _)
CopyLoop(tk, ks, i, keyslot_from, keyslot_to) ==
    IF i >= LUKS2_TOKENS_MAX THEN [r |-> 0, tokens |-> tk]
    ELSE IF token_is_assigned(tk, keyslot_from, i) = 0
    THEN LET one == assign_one_token(tk, ks, keyslot_to, i, TRUE)
         IN IF one.r # 0 THEN one
            ELSE CopyLoop(one.tokens, ks, i + 1, keyslot_from, keyslot_to)
    ELSE CopyLoop(tk, ks, i + 1, keyslot_from, keyslot_to)

\* LUKS2_token_assignment_copy: [r, tokens]
LUKS2_token_assignment_copy(tk, ks, keyslot_from, keyslot_to, commit, wr) ==
    IF keyslot_from < 0 \/ keyslot_from >= LUKS2_KEYSLOTS_MAX
       \/ keyslot_to < 0 \/ keyslot_to >= LUKS2_KEYSLOTS_MAX
    THEN [r |-> -EINVAL, tokens |-> tk]
    ELSE IF LUKS2_tokens_count(tk) <= 0 THEN [r |-> LUKS2_tokens_count(tk), tokens |-> tk]
    ELSE LET res == CopyLoop(tk, ks, 0, keyslot_from, keyslot_to)
         IN IF res.r # 0 THEN res
            ELSE [r |-> IF commit THEN wr ELSE 0, tokens |-> res.tokens]

(***************************************************************************)
(* TPM backends and the TPM2 token record                                  *)
(***************************************************************************)
Min(a, b) == IF a < b THEN a ELSE b

NvIndexes == 1 .. MaxNvIndex

\* the PIN a caller passes (NoPin for NULL) or an NV index asks for
NoPin == "none"
Pins == {NoPin, "1234"}

\* an undefined NV index; a defined one holds bytes and may ask for a PIN
NoNv == [def |-> FALSE, data |-> <<>>, pin |-> NoPin]
NvArea(data, pin) == [def |-> TRUE, data |-> data, pin |-> pin]

\* the secret a TPM2 token's NV index holds
TpmSecret == <<7>>

\* 32-byte nonces: all zero, or one byte set in the first byte, around the
\* middle or in the last byte (low or high half of the byte)
NonceZero == [i \in 1 .. NV_NONCE_SIZE |-> 0]
NoncePositions == {1, NV_NONCE_SIZE \div 2, (NV_NONCE_SIZE \div 2) + 1, NV_NONCE_SIZE}
Nonces == {NonceZero} \cup {[NonceZero EXCEPT ![p] = 17] : p \in NoncePositions}

HexDigits == <<"0", "1", "2", "3", "4", "5", "6", "7", "8", "9",
               "a", "b", "c", "d", "e", "f">>

\* bytes_to_hex: two hex digits per byte
RECURSIVE bytes_to_hex(_)
bytes_to_hex(b) ==
    IF b = <<>> THEN <<>>
    ELSE <<HexDigits[(Head(b) \div 16) + 1], HexDigits[(Head(b) % 16) + 1]>>
         \o bytes_to_hex(Tail(b))

\* strncmp: 0 when the strings agree in their first n characters
strncmp(a, b, n) ==
    IF SubSeq(a, 1, Min(Len(a), n)) = SubSeq(b, 1, Min(Len(b), n)) THEN 0 ELSE 1

\* the record tpm2_token_add writes
Tpm2Doc(ks, nvindex, nonce_nvindex, nv_nonce_str, pin) ==
    <<[k |-> "type", v |-> "tpm2"], [k |-> "keyslots", v |-> ks],
      [k |-> "nvindex", v |-> nvindex], [k |-> "nonce_nvindex", v |-> nonce_nvindex],
      [k |-> "nv_nonce", v |-> nv_nonce_str], [k |-> "pin", v |-> pin]>>

\* tpm2_token_read: [r, nvindex, nonce_nvindex, nv_nonce, pin, nvkey_size];
\* every record of the model has the key size of TpmSecret
tpm2_token_read(json) ==
    LET jobj == Parse(json)
    IN IF json.null \/ ~json.wf
          \/ \E k \in {"nvindex", "nonce_nvindex", "nv_nonce", "pin"} : ~HasKey(jobj, k)
       THEN [r |-> -EINVAL, nvindex |-> 0, nonce_nvindex |-> 0, nv_nonce |-> <<>>,
             pin |-> FALSE, nvkey_size |-> 0]
       ELSE [r |-> 0, nvindex |-> ObjectGet(jobj, "nvindex"),
             nonce_nvindex |-> ObjectGet(jobj, "nonce_nvindex"),
             nv_nonce |-> ObjectGet(jobj, "nv_nonce"), pin |-> ObjectGet(jobj, "pin"),
             nvkey_size |-> Len(TpmSecret)]

\* TCTI specifications: 0 is NULL, 1 the resident daemon ("tabrmd"),
\* 2 + i the device "device:/dev/tpmrm<i>"
NoTcti == 0
Tabrmd == 1
DeviceTcti(i) == 2 + i

\* tpm_init: TRUE on TSS2_RC_SUCCESS
tpm_init(tp, tcti) == tcti \in 1 .. Len(tp) /\ tp[tcti].up

\* access(tcti_conf + 7, R_OK | W_OK) on /dev/tpmrm<i>: 0 when the node is
\* there and may be read and written
access(tp, i) == IF DeviceTcti(i) <= Len(tp) /\ tp[DeviceTcti(i)].node THEN 0 ELSE -1

TPM2_RC_SUCCESS == 0
TPM2_RC_AUTH_FAIL == 1
TPM2_RC_HANDLE == 2

\* tpm_nv_read of size bytes: [rc, data]
tpm_nv_read(backend, nvindex, pin, size) ==
    IF nvindex \notin NvIndexes \/ ~backend.nv[nvindex].def
       \/ Len(backend.nv[nvindex].data) < size
    THEN [rc |-> TPM2_RC_HANDLE, data |-> <<>>]
    ELSE IF backend.nv[nvindex].pin # pin
    THEN [rc |-> TPM2_RC_AUTH_FAIL, data |-> <<>>]
    ELSE [rc |-> TPM2_RC_SUCCESS, data |-> SubSeq(backend.nv[nvindex].data, 1, size)]

\* tpm2_verify_tcti_for_token
tpm2_verify_tcti_for_token(tk, tp, token, tcti_spec) ==
    IF ~tpm_init(tp, tcti_spec) THEN FALSE
    ELSE LET get == LUKS2_token_json_get(tk, token)
             rd == tpm2_token_read(get.json)
             nv == tpm_nv_read(tp[tcti_spec], rd.nonce_nvindex, NoPin, NV_NONCE_SIZE)
         IN IF get.r < 0 THEN FALSE
            ELSE IF rd.r < 0 THEN FALSE
            ELSE IF nv.rc # TPM2_RC_SUCCESS THEN FALSE
            ELSE strncmp(bytes_to_hex(nv.data), rd.nv_nonce, NV_NONCE_SIZE) = 0

\* a device loop that passes over a node it may not access and goes on with
\* the next index
RECURSIVE DeviceLoop_skips(_, _, _, _)
DeviceLoop_skips(tk, tp, token, i) ==
    IF i >= TPMS_NO_LIMIT \/ DeviceTcti(i) > Len(tp) THEN <<>>
    ELSE IF access(tp, i) # 0 THEN DeviceLoop_skips(tk, tp, token, i + 1)
    ELSE IF tpm2_verify_tcti_for_token(tk, tp, token, DeviceTcti(i))
    THEN <<DeviceTcti(i)>>
    ELSE <<DeviceTcti(i)>> \o DeviceLoop_skips(tk, tp, token, i + 1)

\* one device loop of tpm2_find_tcti_for_token from device i on: the
\* devices verified, in order, ending with the one that verified (if any)
RECURSIVE DeviceLoop(_, _, _, _)
DeviceLoop(tk, tp, token, i) ==
    IF i >= TPMS_NO_LIMIT \/ access(tp, i) # 0 THEN <<>>
    ELSE IF tpm2_verify_tcti_for_token(tk, tp, token, DeviceTcti(i))
    THEN <<DeviceTcti(i)>>
    ELSE <<DeviceTcti(i)>> \o DeviceLoop(tk, tp, token, i + 1)

Verified(tk, tp, token, probes) ==
    probes # <<>> /\ tpm2_verify_tcti_for_token(tk, tp, token, probes[Len(probes)])

\* tpm2_find_tcti_for_token: [tcti, probes], the TCTI found (NoTcti for
\* NULL) and the TCTIs verified on the way
tpm2_find_tcti_for_token(tk, tp, token) ==
    LET first == DeviceLoop(tk, tp, token, 0)
        second == DeviceLoop(tk, tp, token, 0)
    IN IF tpm2_verify_tcti_for_token(tk, tp, token, Tabrmd)
       THEN [tcti |-> Tabrmd, probes |-> <<Tabrmd>>]
       ELSE IF Verified(tk, tp, token, first)
       THEN [tcti |-> first[Len(first)], probes |-> <<Tabrmd>> \o first]
       ELSE IF Verified(tk, tp, token, second)
       THEN [tcti |-> second[Len(second)], probes |-> <<Tabrmd>> \o first \o second]
       ELSE [tcti |-> NoTcti, probes |-> <<Tabrmd>> \o first \o second]

(***************************************************************************)
(* Token handlers' open and open_pin                                       *)
(***************************************************************************)
\* what an open returns: r, and whether *buffer was allocated
Opened(r, alloc) == [r |-> r, alloc |-> alloc]

\* what the TPM2 handler's open returns: r, whether *buffer was allocated
\* and *buffer_len (0 when it was not set)
OpenedLen(r, alloc, buffer_len) == [r |-> r, alloc |-> alloc, buffer_len |-> buffer_len]

\* tpm2_token_open_pin_with_tcti that reports every failure of the NV read
\* as -EACCES
tpm2_token_open_pin_with_tcti_one_code(tk, tp, token, tpm_pass, tcti_spec, session_ok, malloc_ok) ==
    IF ~tpm2_verify_tcti_for_token(tk, tp, token, tcti_spec) THEN OpenedLen(-EINVAL, FALSE, 0)
    ELSE IF ~(tpm_init(tp, tcti_spec) /\ session_ok) THEN OpenedLen(-EACCES, FALSE, 0)
    ELSE LET get == LUKS2_token_json_get(tk, token)
             rd == tpm2_token_read(get.json)
             nv == tpm_nv_read(tp[tcti_spec], rd.nvindex, tpm_pass, rd.nvkey_size)
         IN IF get.r < 0 THEN OpenedLen(get.r, FALSE, 0)
            ELSE IF rd.r < 0 THEN OpenedLen(rd.r, FALSE, 0)
            ELSE IF rd.pin /\ tpm_pass = NoPin THEN OpenedLen(-EAGAIN, FALSE, 0)
            ELSE IF ~malloc_ok THEN OpenedLen(-ENOMEM, FALSE, 0)
            ELSE IF nv.rc = TPM2_RC_SUCCESS THEN OpenedLen(0, TRUE, rd.nvkey_size)
            ELSE OpenedLen(-EACCES, TRUE, rd.nvkey_size)

\* tpm2_token_open_pin_with_tcti; session_ok: tpm_init succeeds once more,
\* malloc_ok: malloc returns memory
tpm2_token_open_pin_with_tcti(tk, tp, token, tpm_pass, tcti_spec, session_ok, malloc_ok) ==
    IF ~tpm2_verify_tcti_for_token(tk, tp, token, tcti_spec) THEN OpenedLen(-EINVAL, FALSE, 0)
    ELSE IF ~(tpm_init(tp, tcti_spec) /\ session_ok) THEN OpenedLen(-EACCES, FALSE, 0)
    ELSE LET get == LUKS2_token_json_get(tk, token)
             rd == tpm2_token_read(get.json)
             nv == tpm_nv_read(tp[tcti_spec], rd.nvindex, tpm_pass, rd.nvkey_size)
         IN IF get.r < 0 THEN OpenedLen(get.r, FALSE, 0)
            ELSE IF rd.r < 0 THEN OpenedLen(rd.r, FALSE, 0)
            ELSE IF rd.pin /\ tpm_pass = NoPin THEN OpenedLen(-EAGAIN, FALSE, 0)
            ELSE IF ~malloc_ok THEN OpenedLen(-ENOMEM, FALSE, 0)
            ELSE IF nv.rc = TPM2_RC_SUCCESS THEN OpenedLen(0, TRUE, rd.nvkey_size)
            ELSE IF nv.rc = TPM2_RC_AUTH_FAIL THEN OpenedLen(-EPERM, TRUE, rd.nvkey_size)
            ELSE OpenedLen(-EACCES, TRUE, rd.nvkey_size)

\* tpm2_token_open_pin (tpm2_token_open passes no PIN)
tpm2_token_open_pin(tk, tp, token, tpm_pass, session_ok, malloc_ok) ==
    LET tcti_conf == tpm2_find_tcti_for_token(tk, tp, token).tcti
    IN IF tcti_conf = NoTcti THEN OpenedLen(-EINVAL, FALSE, 0)
       ELSE tpm2_token_open_pin_with_tcti(tk, tp, token, tpm_pass, tcti_conf,
                                          session_ok, malloc_ok)

\* the builtin keyring handler's open: the key is in the keyring or not
KeyringResults == {Opened(0, TRUE), Opened(-EINVAL, FALSE)}

\* what the open of some other external plugin may return
ExtResults ==
    {Opened(0, TRUE)} \cup {Opened(r, FALSE) : r \in {1, -EINVAL, -ENOENT, -EPERM, -EAGAIN}}

\* the libraries dlopen may find for the type "ext"
ExtLibs == {{"open", "version"},
            {"open", "open_pin", "validate", "buffer_free", "version"}}

(***************************************************************************)
(* Activation orchestrator                                                 *)
(***************************************************************************)
CRYPT_ANY_SEGMENT == -2
DefaultSegment == 0

\* LUKS2_keyslot_for_segment; segkeys: the keyslots of the default segment
LUKS2_keyslot_for_segment(segkeys, keyslot, segment) ==
    IF segment = CRYPT_ANY_SEGMENT \/ keyslot \in segkeys THEN 0 ELSE -ENOENT

RECURSIVE SegmentLoop(_, _, _)
SegmentLoop(segkeys, arr, segment) ==
    LET r == LUKS2_keyslot_for_segment(segkeys, atoi(Head(arr)), segment)
    IN IF r # -ENOENT \/ Len(arr) = 1 THEN r
       ELSE SegmentLoop(segkeys, Tail(arr), segment)

\* token_for_segment that takes any token for CRYPT_ANY_SEGMENT, one without
\* keyslots included
token_for_segment_any_first(segkeys, jobj_token, segment) ==
    IF ~HasKey(jobj_token, "keyslots") THEN -EINVAL
    ELSE IF segment < 0 /\ segment # CRYPT_ANY_SEGMENT THEN -EINVAL
    ELSE IF segment = CRYPT_ANY_SEGMENT THEN 0
    ELSE IF Len(ObjectGet(jobj_token, "keyslots")) <= 0 THEN -ENOENT
    ELSE SegmentLoop(segkeys, ObjectGet(jobj_token, "keyslots"), segment)

\* token_for_segment
token_for_segment(segkeys, jobj_token, segment) ==
    IF ~HasKey(jobj_token, "keyslots") THEN -EINVAL
    ELSE IF segment < 0 /\ segment # CRYPT_ANY_SEGMENT THEN -EINVAL
    ELSE IF Len(ObjectGet(jobj_token, "keyslots")) <= 0 THEN -ENOENT
    ELSE IF segment = CRYPT_ANY_SEGMENT THEN 0
    ELSE SegmentLoop(segkeys, ObjectGet(jobj_token, "keyslots"), segment)

\* translate_errno without the exemption of builtin names
translate_errno_all_types(ret_val, type) ==
    IF ret_val > 0 \/ ret_val = -EINVAL \/ ret_val = -ENOENT THEN -EPERM ELSE ret_val

\* translate_errno that masks every failure of a handler outside the
\* builtin names
translate_errno_masks_failures(ret_val, type) ==
    IF ret_val # 0 /\ ~is_builtin_candidate(type) THEN -EPERM ELSE ret_val

\* translate_errno
translate_errno(ret_val, type) ==
    IF (ret_val > 0 \/ ret_val = -EINVAL \/ ret_val = -ENOENT)
       /\ ~is_builtin_candidate(type)
    THEN -EPERM
    ELSE ret_val

\* LUKS2_token_handler
LUKS2_token_handler(tk, th, token, lib) ==
    IF token < 0 \/ ~HasToken(tk, token)
       \/ ~HasKey(LUKS2_get_token_jobj(tk, token), "type")
    THEN [found |-> FALSE, h |-> KeyringHandler, handlers |-> th]
    ELSE LUKS2_token_handler_type(th, ObjectGet(LUKS2_get_token_jobj(tk, token), "type"),
                                  lib)

\* LUKS2_token_open that does not validate the stored record again
LUKS2_token_open_no_validate(tk, th, token, jobj_token, type, segment, segkeys, pin, lib, vrej, out) ==
    LET seg == token_for_segment(segkeys, jobj_token, segment)
        res == LUKS2_token_handler(tk, th, token, lib)
        h == res.h
        quit(r, handlers) == [r |-> r, called |-> FALSE, raw |-> 0, alloc |-> FALSE,
                              handlers |-> handlers, rejects |-> FALSE]
    IN IF type # "" /\ ~HasKey(jobj_token, "type") THEN quit(-EINVAL, th)
       ELSE IF type # "" /\ type # ObjectGet(jobj_token, "type") THEN quit(-ENOENT, th)
       ELSE IF seg < 0 THEN quit(seg, th)
       ELSE IF ~res.found THEN quit(-ENOENT, res.handlers)
       ELSE IF pin # NoPin /\ "open_pin" \notin h.caps
       THEN [quit(-ENOENT, res.handlers) EXCEPT !.rejects = "validate" \in h.caps /\ vrej]
       ELSE [r |-> translate_errno(out.r, h.name), called |-> TRUE, raw |-> out.r,
             alloc |-> out.alloc, handlers |-> res.handlers,
             rejects |-> "validate" \in h.caps /\ vrej]

\* LUKS2_token_open: [r, called, raw, alloc, handlers, rejects].  type "" is
\* NULL; vrej is the verdict of the handler's validate on the stored record,
\* out what the handler's open or open_pin returns when it is called;
\* rejects tells that the handler has a validate and it rejected the record.
LUKS2_token_open(tk, th, token, jobj_token, type, segment, segkeys, pin, lib, vrej, out) ==
    LET seg == token_for_segment(segkeys, jobj_token, segment)
        res == LUKS2_token_handler(tk, th, token, lib)
        h == res.h
        quit(r, handlers) == [r |-> r, called |-> FALSE, raw |-> 0, alloc |-> FALSE,
                              handlers |-> handlers, rejects |-> FALSE]
    IN IF type # "" /\ ~HasKey(jobj_token, "type") THEN quit(-EINVAL, th)
       ELSE IF type # "" /\ type # ObjectGet(jobj_token, "type") THEN quit(-ENOENT, th)
       ELSE IF seg < 0 THEN quit(seg, th)
       ELSE IF ~res.found THEN quit(-ENOENT, res.handlers)
       ELSE IF "validate" \in h.caps /\ vrej
       THEN [quit(-ENOENT, res.handlers) EXCEPT !.rejects = TRUE]
       ELSE IF pin # NoPin /\ "open_pin" \notin h.caps THEN quit(-ENOENT, res.handlers)
       ELSE [r |-> translate_errno(out.r, h.name), called |-> TRUE, raw |-> out.r,
             alloc |-> out.alloc, handlers |-> res.handlers, rejects |-> FALSE]

\* what LUKS2_keyslot_open returns for a keyslot: 0 for opened
KeyslotResults == {0, -EPERM, -EINVAL}

\* the loop of LUKS2_keyslot_open_by_token from position i on: [r, num, tried]
RECURSIVE KeyslotLoop(_, _, _, _, _, _)
KeyslotLoop(arr, kres, i, r, num, tried) ==
    IF ~(i <= Len(arr) /\ r < 0) THEN [r |-> r, num |-> num, tried |-> tried]
    ELSE KeyslotLoop(arr, kres, i + 1, kres[atoi(arr[i])], atoi(arr[i]),
                     Append(tried, atoi(arr[i])))

\* LUKS2_keyslot_open_by_token: [r, tried]
LUKS2_keyslot_open_by_token(tk, token, kres) ==
    IF ~HasToken(tk, token) THEN [r |-> -EINVAL, tried |-> <<>>]
    ELSE LET jobj_token == LUKS2_get_token_jobj(tk, token)
         IN IF ~HasKey(jobj_token, "type") \/ ~HasKey(jobj_token, "keyslots")
            THEN [r |-> -EINVAL, tried |-> <<>>]
            ELSE LET l == KeyslotLoop(ObjectGet(jobj_token, "keyslots"), kres, 1,
                                      -ENOENT, 0, <<>>)
                 IN [r |-> IF l.r < 0 THEN l.r ELSE l.num, tried |-> l.tried]

(***************************************************************************)
(* TPM2 plugin: the backend and header operations create and remove use    *)
(***************************************************************************)
\* the backend tpm_init opens for a TCTI; for NULL the first backend that
\* is up
DefaultTcti(tp) ==
    IF \E i \in 1 .. Len(tp) : tp[i].up
    THEN CHOOSE i \in 1 .. Len(tp) : tp[i].up /\ \A j \in 1 .. (i - 1) : ~tp[j].up
    ELSE NoTcti

Context(tp, tcti_str) == IF tcti_str = NoTcti THEN DefaultTcti(tp) ELSE tcti_str

\* tpm_nv_find_and_write: [r, nvindex, tpms]; for *nvindex = 0 the first
\* undefined index is taken; the index is defined and written, or nothing
\* is changed
tpm_nv_find_and_write(tp, ctx, nvindex, data, pin, fails) ==
    LET free == {i \in NvIndexes : ~tp[ctx].nv[i].def}
        idx == IF nvindex # 0 THEN nvindex
               ELSE IF free = {} THEN 0
               ELSE CHOOSE i \in free : \A j \in free : i <= j
    IN IF fails \/ idx \notin free THEN [r |-> -EIO, nvindex |-> nvindex, tpms |-> tp]
       ELSE [r |-> 0, nvindex |-> idx,
             tpms |-> [tp EXCEPT ![ctx].nv[idx] = NvArea(data, pin)]]

\* tpm_nv_undefine
tpm_nv_undefine(tp, ctx, nvindex) ==
    IF ctx \in 1 .. Len(tp) /\ nvindex \in NvIndexes
    THEN [tp EXCEPT ![ctx].nv[nvindex] = NoNv]
    ELSE tp

\* crypt_keyslot_add_by_passphrase: [r, keyslots]
crypt_keyslot_add_by_passphrase(ks, keyslot, pass_ok) ==
    LET used == {ks[i] : i \in 1 .. Len(ks)}
        free == KeyslotIds \ used
        num == IF keyslot # CRYPT_ANY_SLOT THEN keyslot
               ELSE IF free = {} THEN -1
               ELSE CHOOSE k \in free : \A j \in free : k <= j
    IN IF ~pass_ok THEN [r |-> -EPERM, keyslots |-> ks]
       ELSE IF num \notin free THEN [r |-> -EINVAL, keyslots |-> ks]
       ELSE [r |-> num, keyslots |-> Append(ks, num)]

\* crypt_keyslot_destroy: [r, keyslots]
crypt_keyslot_destroy(ks, keyslot) ==
    IF \E i \in 1 .. Len(ks) : ks[i] = keyslot
    THEN [r |-> 0, keyslots |-> SelectSeq(ks, LAMBDA k : k # keyslot)]
    ELSE [r |-> -EINVAL, keyslots |-> ks]

\* LUKS2_token_status
CRYPT_TOKEN_INVALID == 0
CRYPT_TOKEN_INACTIVE == 1
CRYPT_TOKEN_INTERNAL == 2
CRYPT_TOKEN_INTERNAL_UNKNOWN == 3
CRYPT_TOKEN_EXTERNAL == 4
CRYPT_TOKEN_EXTERNAL_UNKNOWN == 5

LUKS2_token_status(tk, th, token, lib) ==
    IF token < 0 \/ token >= LUKS2_TOKENS_MAX
    THEN [info |-> CRYPT_TOKEN_INVALID, type |-> "", handlers |-> th]
    ELSE IF ~HasToken(tk, token)
    THEN [info |-> CRYPT_TOKEN_INACTIVE, type |-> "", handlers |-> th]
    ELSE LET tmp == ObjectGet(LUKS2_get_token_jobj(tk, token), "type")
             res == LUKS2_token_handler_type(th, tmp, lib)
         IN IF res.found
            THEN [info |-> IF is_builtin_candidate(tmp) THEN CRYPT_TOKEN_INTERNAL
                           ELSE CRYPT_TOKEN_EXTERNAL,
                  type |-> res.h.name, handlers |-> res.handlers]
            ELSE [info |-> IF is_builtin_candidate(tmp) THEN CRYPT_TOKEN_INTERNAL_UNKNOWN
                           ELSE CRYPT_TOKEN_EXTERNAL_UNKNOWN,
                  type |-> tmp, handlers |-> res.handlers]

\* tpm2_token_by_nvindex: the first TPM2 token whose record names nvindex
tpm2_token_by_nvindex(tk, nvindex) ==
    LET hit == {i \in 1 .. Len(tk) :
                   /\ ObjectGet(tk[i].doc, "type") = "tpm2"
                   /\ tpm2_token_read(token_json_to_string(tk[i].doc)).r = 0
                   /\ ObjectGet(tk[i].doc, "nvindex") = nvindex}
    IN IF hit = {} THEN -ENOENT ELSE tk[CHOOSE i \in hit : \A j \in hit : i <= j].id

\* tpm2_token_add: the record is stored with crypt_token_json_set, that is
\* LUKS2_token_create with commit
tpm2_token_add(tk, th, token, nvindex, nonce_nvindex, nv_nonce_str, pin, wr) ==
    LUKS2_token_create(tk, th, token,
                       Text(FALSE, Tpm2Doc(<<>>, nvindex, nonce_nvindex, nv_nonce_str, pin)),
                       TRUE, Tpm2Lib, FALSE, wr)

\* tpm2_token_kill: [r, tokens, tpms]; both NV indices of the record are
\* undefined and the record is deleted
tpm2_token_kill(tk, tp, ctx, token, fails) ==
    LET rd == tpm2_token_read(LUKS2_token_json_get(tk, token).json)
    IN IF fails \/ rd.r < 0 THEN [r |-> -EINVAL, tokens |-> tk, tpms |-> tp]
       ELSE [r |-> 0, tokens |-> TokensDel(tk, token),
             tpms |-> tpm_nv_undefine(tpm_nv_undefine(tp, ctx, rd.nvindex), ctx,
                                      rd.nonce_nvindex)]

(***************************************************************************)
(* Calls on the header                                                     *)
(***************************************************************************)
NoCall ==
    [op |-> "none", token |-> 0, keyslot |-> 0, keyslot_to |-> 0, assign |-> FALSE,
     json |-> NoJson, wfail |-> FALSE, r0 |-> 0, ret |-> 0,
     tcti |-> NoTcti, ok |-> FALSE, probes |-> <<>>]

\* no plugin handle, no activation request
NoHandle ==
    [pc |-> "none", op |-> "", status |-> {}, token |-> 0, keyslot |-> 0, tpmnv |-> 0,
     tpmnonce_nv |-> 0, tcti_str |-> NoTcti, force_remove |-> FALSE,
     no_tpm_pin |-> FALSE, ctx |-> NoTcti, found |-> NoTcti, nonce |-> <<>>,
     i |-> 0, ret |-> 0, runs |-> 0,
     defined |-> FALSE,
     pre |-> [tokens |-> <<>>, keyslots |-> <<>>, tpms |-> <<>>]]
NoRequest ==
    [pc |-> "none", token |-> 0, type |-> "", pin |-> NoPin, segment |-> 0,
     segkeys |-> {}, queue |-> <<>>, cur |-> -1, r |-> -ENOENT,
     called |-> <<>>, bufs |-> <<>>, tried |-> <<>>, attempts |-> <<>>,
     rejected |-> {}, ret |-> 0]

\* what LUKS2_hdr_write returns
WriteResults == {0, -EIO}

\* what dlopen finds for a type: no library, or the TPM2 plugin's symbols
StoreLibs == {NoLib, Tpm2Lib}

\* crypt_token_json_set / LUKS2_token_create
TokenCreate ==
    \E token \in TokenIds \cup {CRYPT_ANY_TOKEN, LUKS2_TOKENS_MAX},
       json \in JsonTexts \cup {NoJson},
       commit \in BOOLEAN, wr \in WriteResults, lib \in StoreLibs, vrej \in BOOLEAN :
        LET res == LUKS2_token_create(tokens, token_handlers, token, json, commit,
                                      lib, vrej, wr)
        IN /\ call.op = "none"
           /\ tokens' = res.tokens
           /\ token_handlers' = res.handlers
           /\ call' = [NoCall EXCEPT !.op = "create", !.token = token, !.json = json,
                                     !.wfail = (commit /\ wr # 0), !.ret = res.r]
           /\ UNCHANGED <<keyslots, tpms, tc, act>>

\* crypt_token_assign_keyslot, crypt_token_unassign_keyslot / LUKS2_token_assign
TokenAssign ==
    \E keyslot \in KeyslotIds \cup {CRYPT_ANY_SLOT},
       token \in TokenIds \cup {CRYPT_ANY_TOKEN},
       assign \in BOOLEAN, commit \in BOOLEAN, wr \in WriteResults :
        LET res == LUKS2_token_assign(tokens, keyslots, keyslot, token, assign, commit, wr)
        IN /\ call.op = "none"
           /\ tokens' = res.tokens
           /\ call' = [NoCall EXCEPT !.op = "assign", !.token = token,
                                     !.keyslot = keyslot, !.assign = assign,
                                     !.wfail = (commit /\ wr # 0),
                                     !.r0 = res.r0, !.ret = res.r]
           /\ UNCHANGED <<keyslots, token_handlers, tpms, tc, act>>

\* LUKS2_token_assignment_copy
TokenAssignmentCopy ==
    \E keyslot_from \in KeyslotIds \cup {LUKS2_KEYSLOTS_MAX}, keyslot_to \in KeyslotIds,
       commit \in BOOLEAN, wr \in WriteResults :
        LET res == LUKS2_token_assignment_copy(tokens, keyslots, keyslot_from,
                                               keyslot_to, commit, wr)
        IN /\ call.op = "none"
           /\ tokens' = res.tokens
           /\ call' = [NoCall EXCEPT !.op = "copy", !.keyslot = keyslot_from,
                                     !.keyslot_to = keyslot_to,
                                     !.wfail = (commit /\ wr # 0), !.ret = res.r]
           /\ UNCHANGED <<keyslots, token_handlers, tpms, tc, act>>

(***************************************************************************)
(* Headers a caller may hold: up to LUKS2_TOKENS_MAX token records stored  *)
(* in ascending or descending id order, each a valid record, the whole     *)
(* within the JSON area.                                                   *)
(***************************************************************************)
HeaderDocs ==
    {Parse(TokenText("luks2-keyring", <<>>, 0)),
     Parse(TokenText("tpm2", <<NumStr(0)>>, 0)),
     Parse(TokenText("tpm2", <<NumStr(LUKS2_KEYSLOTS_MAX - 1), NumStr(0)>>, BigPad))}

Ascending(ids) == \A i \in 1 .. (Len(ids) - 1) : ids[i] < ids[i + 1]
Descending(ids) == \A i \in 1 .. (Len(ids) - 1) : ids[i] > ids[i + 1]

HeaderIdOrders ==
    {ids \in UNION {[1 .. n -> TokenIds] : n \in 0 .. LUKS2_TOKENS_MAX} :
        Ascending(ids) \/ Descending(ids)}

Headers ==
    {tk \in UNION {{[i \in 1 .. Len(ids) |-> [id |-> ids[i], doc |-> docs[i]]] :
                        docs \in [1 .. Len(ids) -> HeaderDocs]} : ids \in HeaderIdOrders} :
        ~LUKS2_check_json_size(tk)}

\* A loaded header, its keyslots stored newest first; the registry holds
\* the builtin keyring handler.
StoreInit ==
    /\ tokens \in Headers
    /\ keyslots = [i \in 1 .. LUKS2_KEYSLOTS_MAX |-> LUKS2_KEYSLOTS_MAX - i]
    /\ token_handlers = <<KeyringHandler>>
    /\ call = NoCall
    /\ tpms = <<>>
    /\ tc = NoHandle
    /\ act = NoRequest

StoreNext == TokenCreate \/ TokenAssign \/ TokenAssignmentCopy

StoreSpec == StoreInit /\ [][StoreNext]_vars

(***************************************************************************)
(* Device binding: a header holding one TPM2 token, and the backends a     *)
(* machine may offer for it                                                *)
(***************************************************************************)
\* tpm2_verify_tcti_for_token on a TCTI the caller names
VerifyTcti ==
    \E token \in TokenIds, tcti_spec \in 1 .. (Len(tpms) + 1) :
        /\ call.op = "none"
        /\ call' = [NoCall EXCEPT !.op = "verify", !.token = token, !.tcti = tcti_spec,
                                  !.ok = tpm2_verify_tcti_for_token(tokens, tpms, token,
                                                                    tcti_spec)]
        /\ UNCHANGED <<tokens, keyslots, token_handlers, tpms, tc, act>>

\* tpm2_find_tcti_for_token
FindTcti ==
    \E token \in TokenIds :
        LET res == tpm2_find_tcti_for_token(tokens, tpms, token)
        IN /\ call.op = "none"
           /\ call' = [NoCall EXCEPT !.op = "find", !.token = token, !.tcti = res.tcti,
                                     !.ok = (res.tcti # NoTcti), !.probes = res.probes]
           /\ UNCHANGED <<tokens, keyslots, token_handlers, tpms, tc, act>>

\* a backend: down or up, its nonce index undefined or holding a nonce
Backends ==
    {[node |-> TRUE, up |-> up,
      nv |-> [i \in NvIndexes |-> IF i = 1 THEN NvArea(TpmSecret, NoPin) ELSE n]] :
        up \in BOOLEAN, n \in {NoNv} \cup {NvArea(m, NoPin) : m \in Nonces}}

\* a device whose node is missing or may not be accessed
NoNodeBackend == [node |-> FALSE, up |-> FALSE, nv |-> [i \in NvIndexes |-> NoNv]]

\* the backends next to the one the record was made on: down, without NV
\* index, or holding the nonce n as well
NearBackends(n) ==
    {[node |-> TRUE, up |-> FALSE, nv |-> [i \in NvIndexes |-> NoNv]],
     [node |-> TRUE, up |-> TRUE, nv |-> [i \in NvIndexes |-> NoNv]],
     [node |-> TRUE, up |-> TRUE,
      nv |-> [i \in NvIndexes |-> IF i = 1 THEN NvArea(TpmSecret, NoPin)
                                  ELSE NvArea(n, NoPin)]]}

\* the machines: the resident daemon, then the devices, any of which may be
\* missing; the last device is any backend
VerifyMachines(n) ==
    {tp \in [1 .. (1 + MaxTpmDevices) -> Backends \cup NearBackends(n) \cup {NoNodeBackend}] :
        /\ tp[Tabrmd] \in NearBackends(n)
        /\ \A i \in 2 .. MaxTpmDevices : tp[i] \in NearBackends(n) \cup {NoNodeBackend}}

VerifyInit ==
    /\ \E n \in Nonces :
          /\ tokens = <<[id |-> 0,
                         doc |-> Tpm2Doc(<<NumStr(0)>>, 1, 2, bytes_to_hex(n), FALSE)]>>
          /\ tpms \in VerifyMachines(n)
    /\ keyslots = <<0>>
    /\ token_handlers = <<KeyringHandler>>
    /\ call = NoCall
    /\ tc = NoHandle
    /\ act = NoRequest

VerifyNext == VerifyTcti \/ FindTcti

VerifySpec == VerifyInit /\ [][VerifyNext]_vars

\* C4: binding verification of a token whose record stores nonce N succeeds
\* exactly when the backend can be opened and its nonce NV index is readable
\* and holds N in all 32 bytes; in every other case the result is "not bound".
C4_VerifyIffNonceEqual ==
    (call.op = "verify" /\ HasToken(tokens, call.token)) =>
        LET rec == tpm2_token_read(LUKS2_token_json_get(tokens, call.token).json)
        IN \A n \in Nonces :
              bytes_to_hex(n) = rec.nv_nonce =>
                  (call.ok <=> /\ tpm_init(tpms, call.tcti)
                               /\ tpms[call.tcti].nv[rec.nonce_nvindex].def
                               /\ tpms[call.tcti].nv[rec.nonce_nvindex].data = n)

(***************************************************************************)
(* LUKS2_token_open_and_activate, step by step                             *)
(***************************************************************************)
\* the stored order of the token ids: json_object_object_foreach
StoredIds(tk) == [i \in 1 .. Len(tk) |-> tk[i].id]

\* the rest of LUKS2_token_open_and_activate for the device name (or NULL):
\* the result once the keyring load and LUKS2_activate returned kr and ar
Activated(r, name, use_keyring, kr, ar) ==
    LET keyslot == r
        r1 == IF use_keyring THEN kr ELSE keyslot
        r2 == IF r1 >= 0 /\ name THEN ar ELSE r1
    IN IF r < 0 THEN r ELSE IF r2 < 0 THEN r2 ELSE keyslot

\* the returns of a request whose trial of tokens ended
Finals(a) ==
    IF a.pc # "finish" THEN {a}
    ELSE {[a EXCEPT !.pc = "done", !.ret = ret] :
            ret \in {Activated(a.r, name, use_keyring, kr, ar) :
                        name \in BOOLEAN, use_keyring \in BOOLEAN,
                        kr \in {0, -EINVAL}, ar \in {0, -EIO}}}

\* a foreach that goes on to the next token whatever the attempt returned
Advance_no_break(a, r) ==
    LET b == [a EXCEPT !.attempts = Append(@, [token |-> a.cur, r |-> r])]
    IN IF a.token # CRYPT_ANY_TOKEN \/ a.queue = <<>>
       THEN [b EXCEPT !.pc = "finish", !.r = r]
       ELSE [b EXCEPT !.pc = "open", !.r = r, !.cur = Head(a.queue),
                      !.queue = Tail(a.queue)]

\* after a token attempt ended with r: the next token of the foreach, or
\* the end of the trial; attempts keeps the result of every attempt
Advance(a, r) ==
    LET b == [a EXCEPT !.attempts = Append(@, [token |-> a.cur, r |-> r])]
    IN IF a.token # CRYPT_ANY_TOKEN \/ (r # -ENOENT /\ r # -EPERM) \/ a.queue = <<>>
       THEN [b EXCEPT !.pc = "finish", !.r = r]
       ELSE [b EXCEPT !.pc = "open", !.r = r, !.cur = Head(a.queue),
                      !.queue = Tail(a.queue)]

\* entry of LUKS2_token_open_and_activate: segment and first token
ActivateStart ==
    \E token \in TokenIds \cup {CRYPT_ANY_TOKEN, LUKS2_TOKENS_MAX},
       type \in {"", "tpm2"}, pin \in Pins,
       segment \in {CRYPT_ANY_SEGMENT, DefaultSegment, -1},
       segkeys \in {{}, {0}} :
        LET a == [NoRequest EXCEPT !.token = token, !.type = type, !.pin = pin,
                                   !.segment = segment, !.segkeys = segkeys]
        IN /\ act.pc = "none"
           /\ segment # DefaultSegment => segkeys = {}
           /\ act' \in Finals(
                     IF segment < 0 /\ segment # CRYPT_ANY_SEGMENT
                     THEN [a EXCEPT !.pc = "done", !.ret = -EINVAL]
                     ELSE IF token >= 0 /\ token < LUKS2_TOKENS_MAX
                     THEN IF HasToken(tokens, token)
                          THEN [a EXCEPT !.pc = "open", !.cur = token]
                          ELSE [a EXCEPT !.pc = "finish"]
                     ELSE IF token = CRYPT_ANY_TOKEN
                     THEN IF tokens = <<>> THEN [a EXCEPT !.pc = "finish"]
                          ELSE [a EXCEPT !.pc = "open", !.cur = Head(StoredIds(tokens)),
                                         !.queue = Tail(StoredIds(tokens))]
                     ELSE [a EXCEPT !.pc = "done", !.ret = -EINVAL])
           /\ UNCHANGED <<tokens, keyslots, token_handlers, call, tpms, tc>>

\* what dlopen finds for a type, and what the handler's open may return
LibsOf(type) == IF type = "tpm2" THEN {Tpm2Lib} ELSE IF type = "ext" THEN ExtLibs ELSE {NoLib}

OutcomesOf(type, token, pin) ==
    IF type = LUKS2_TOKEN_KEYRING THEN KeyringResults
    ELSE IF type = "tpm2"
    THEN {tpm2_token_open_pin(tokens, tpms, token, pin, s, m) : s \in BOOLEAN, m \in BOOLEAN}
    ELSE ExtResults

\* LUKS2_token_buffer_free: the handler's buffer_free or memzero and free;
\* either releases the buffer of the current token once more
LUKS2_token_buffer_free(bufs, token) ==
    [i \in 1 .. Len(bufs) |->
        IF i = Len(bufs) /\ bufs[i].token = token
        THEN [bufs[i] EXCEPT !.freed = @ + 1] ELSE bufs[i]]

\* an attempt that goes on to the keyslots whatever LUKS2_token_open returned
Attempt_always_unlocks(a, res, type, kres) ==
    LET ko == LUKS2_keyslot_open_by_token(tokens, a.cur, kres)
    IN Advance([a EXCEPT
                  !.called = IF res.called
                             THEN Append(@, [token |-> a.cur, type |-> type,
                                             raw |-> res.raw, r |-> res.r])
                             ELSE @,
                  !.rejected = IF res.rejects THEN @ \cup {a.cur} ELSE @,
                  !.tried = @ \o [i \in 1 .. Len(ko.tried) |->
                                    [token |-> a.cur, keyslot |-> ko.tried[i],
                                     r |-> kres[ko.tried[i]]]]],
               IF res.r # 0 THEN res.r ELSE ko.r)

\* one attempt of the trial: LUKS2_token_open on the current token and, when
\* it returns 0, LUKS2_keyslot_open_by_token and LUKS2_token_buffer_free;
\* rejected keeps the tokens whose record the handler's validate rejected
Attempt(a, res, type, kres) ==
    LET opened == [a EXCEPT
                     !.called = IF res.called
                                THEN Append(@, [token |-> a.cur, type |-> type,
                                                raw |-> res.raw, r |-> res.r])
                                ELSE @,
                     !.bufs = IF res.called /\ res.alloc
                              THEN Append(@, [token |-> a.cur, freed |-> 0])
                              ELSE @,
                     !.rejected = IF res.rejects THEN @ \cup {a.cur} ELSE @]
        ko == LUKS2_keyslot_open_by_token(tokens, a.cur, kres)
    IN IF res.r # 0 THEN Advance(opened, res.r)
       ELSE Advance([opened EXCEPT
                       !.tried = @ \o [i \in 1 .. Len(ko.tried) |->
                                         [token |-> a.cur, keyslot |-> ko.tried[i],
                                          r |-> kres[ko.tried[i]]]],
                       !.bufs = LUKS2_token_buffer_free(@, a.cur)],
                    ko.r)

\* what LUKS2_keyslot_open may return for the keyslots of a token's array;
\* a keyslot outside the array is not opened, a keyslot that does not belong
\* to the segment is not found
KeyslotOutcomes(jobj_token, segment, segkeys) ==
    LET assigned == {atoi(ObjectGet(jobj_token, "keyslots")[i]) :
                        i \in 1 .. Len(ObjectGet(jobj_token, "keyslots"))}
    IN {kres \in [KeyslotIds -> KeyslotResults \cup {-ENOENT}] :
          \A k \in KeyslotIds :
              kres[k] = -ENOENT <=>
                  \/ k \notin assigned
                  \/ LUKS2_keyslot_for_segment(segkeys, k, segment) # 0}

\* whether h->validate may reject the record: the verdict is a function of
\* the record, so a record equal to one validated earlier in the request
\* gets the verdict of that one
ValidateVerdicts(a, jobj_token) ==
    IF \E t \in a.rejected : LUKS2_get_token_jobj(tokens, t) = jobj_token THEN {TRUE}
    ELSE IF \E i \in 1 .. Len(a.called) :
                LUKS2_get_token_jobj(tokens, a.called[i].token) = jobj_token
    THEN {FALSE}
    ELSE BOOLEAN

\* the body of the trial for the current token, and the return when the
\* trial ends with it
TokenAttempt ==
    /\ act.pc = "open"
    /\ LET jobj_token == LUKS2_get_token_jobj(tokens, act.cur)
           type == ObjectGet(jobj_token, "type")
       IN \E lib \in LibsOf(type), vrej \in ValidateVerdicts(act, jobj_token),
             out \in OutcomesOf(type, act.cur, act.pin) :
            LET res == LUKS2_token_open(tokens, token_handlers, act.cur, jobj_token,
                                        act.type, act.segment, act.segkeys, act.pin,
                                        lib, vrej, out)
            IN /\ token_handlers' = res.handlers
               /\ \E kres \in IF res.r = 0
                              THEN KeyslotOutcomes(jobj_token, act.segment, act.segkeys)
                              ELSE {[k \in KeyslotIds |-> -ENOENT]} :
                     act' \in Finals(Attempt(act, res, type, kres))
    /\ UNCHANGED <<tokens, keyslots, call, tpms, tc>>

\* the token records of the headers activation runs on
OpenDocs ==
    {Parse(TokenText(LUKS2_TOKEN_KEYRING, <<NumStr(0)>>, 0)),
     Parse(TokenText("ext", <<NumStr(0)>>, 0)),
     Parse(TokenText("ext", <<>>, 0)),
     Tpm2Doc(<<NumStr(LUKS2_KEYSLOTS_MAX - 1), NumStr(0)>>, 1, 2, bytes_to_hex(NonceZero), FALSE),
     Tpm2Doc(<<NumStr(0)>>, 1, 2, bytes_to_hex(NonceZero), TRUE)}

TypeOf(doc) == ObjectGet(doc, "type")

\* the ids 0 .. n-1 stored in ascending or in descending order
DenseIdOrders ==
    {ids \in HeaderIdOrders : \A i \in 1 .. Len(ids) : ids[i] < Len(ids)}

\* headers in which every token but at most one is of the plain external
\* type bound to keyslot 0
OpenHeaders ==
    {tk \in {[i \in 1 .. Len(ids) |->
                [id |-> ids[i],
                 doc |-> IF i = p THEN d ELSE Parse(TokenText("ext", <<NumStr(0)>>, 0))]] :
                ids \in DenseIdOrders, p \in 1 .. LUKS2_TOKENS_MAX, d \in OpenDocs} :
        ~LUKS2_check_json_size(tk)}

\* the machines: every backend but the last one is down; the last one holds
\* the nonce of the records (or nothing) and the secret, with or without a
\* PIN, or no secret
DownBackend == [node |-> TRUE, up |-> FALSE, nv |-> [i \in NvIndexes |-> NoNv]]

OpenBackends ==
    {[node |-> TRUE, up |-> TRUE,
      nv |-> [i \in NvIndexes |-> IF i = 1 THEN s ELSE IF i = 2 THEN n ELSE NoNv]] :
        s \in {NoNv} \cup {NvArea(TpmSecret, pin) : pin \in Pins},
        n \in {NvArea(NonceZero, NoPin)}}
    \cup {DownBackend}

OpenMachines ==
    {[i \in 1 .. (1 + MaxTpmDevices) |-> IF i = 1 + MaxTpmDevices THEN b ELSE DownBackend] :
        b \in OpenBackends}

OpenInit ==
    /\ tokens \in OpenHeaders
    /\ keyslots = [i \in 1 .. LUKS2_KEYSLOTS_MAX |-> LUKS2_KEYSLOTS_MAX - i]
    /\ token_handlers = <<KeyringHandler>>
    /\ call = NoCall
    /\ tpms \in IF \E i \in 1 .. Len(tokens) : TypeOf(tokens[i].doc) = "tpm2"
               THEN OpenMachines
               ELSE {[i \in 1 .. (1 + MaxTpmDevices) |-> DownBackend]}
    /\ tc = NoHandle
    /\ act = NoRequest

OpenNext == ActivateStart \/ TokenAttempt

OpenSpec == OpenInit /\ [][OpenNext]_vars

(***************************************************************************)
(* TPM2 plugin: crypt_token_create and crypt_token_remove, step by step    *)
(***************************************************************************)
Snapshot == [tokens |-> tokens, keyslots |-> keyslots, tpms |-> tpms]

\* the function returns: its locals are gone
Return(h, r) ==
    [h EXCEPT !.pc = "done", !.ret = r, !.ctx = NoTcti, !.found = NoTcti,
              !.nonce = <<>>, !.i = 0]

\* the number of create and remove calls of one run
MaxRuns == 2

\* the PIN the secret NV index is defined with
NvPin(h) == IF h.no_tpm_pin THEN NoPin ELSE "1234"

\* the nonces tpm_get_random may draw
TpmNonces == {NonceZero, [NonceZero EXCEPT ![1] = 17]}

\* err_nonce_nv_defined and err_pass_nv_defined: both NV indices undefined
UndefineBoth(tp, h) ==
    tpm_nv_undefine(tpm_nv_undefine(tp, h.ctx, h.tpmnonce_nv), h.ctx, h.tpmnv)

\* crypt_token_create up to the prompts: arguments, status, tpm_init, PCR
\* capability, random data
CreateStart ==
    \E token \in {CRYPT_ANY_TOKEN, 0}, tcti_str \in {NoTcti, Len(tpms)},
       no_tpm_pin \in BOOLEAN, args_ok \in BOOLEAN,
       early \in {0, -ECOMM, -ENOTSUP, -ENOMEM}, nonce \in TpmNonces :
        LET h0 == IF tc.status = {} /\ args_ok
                  THEN [tc EXCEPT !.status = {"CREATE_VALID"}, !.token = token,
                                  !.keyslot = CRYPT_ANY_SLOT, !.tcti_str = tcti_str,
                                  !.no_tpm_pin = no_tpm_pin]
                  ELSE tc
            h == [h0 EXCEPT !.op = "create", !.pre = Snapshot, !.defined = FALSE,
                            !.runs = @ + 1,
                            !.ctx = Context(tpms, h0.tcti_str)]
        IN /\ tc.pc \in {"none", "done"}
           /\ tc.runs < MaxRuns
           /\ tc.status # {} => token = CRYPT_ANY_TOKEN /\ tcti_str = NoTcti
                                 /\ ~no_tpm_pin /\ args_ok
           /\ tc' = IF tc.status = {} /\ ~args_ok THEN Return(h, -EINVAL)
                    ELSE IF h.status # {"CREATE_VALID"} THEN Return(h, -EINVAL)
                    ELSE IF ~tpm_init(tpms, h.ctx) THEN Return(h, -EINVAL)
                    ELSE IF early # 0 THEN Return(h, early)
                    ELSE [h EXCEPT !.pc = "nv_pass", !.nonce = nonce]
           /\ UNCHANGED <<tokens, keyslots, token_handlers, call, tpms, act>>

\* tpm_nv_find_and_write of the passphrase
CreateNvPass ==
    /\ tc.pc = "nv_pass"
    /\ \E fails \in BOOLEAN :
          LET w == tpm_nv_find_and_write(tpms, tc.ctx, tc.tpmnv, TpmSecret, NvPin(tc), fails)
          IN /\ tpms' = w.tpms
             /\ tc' = IF w.r < 0 THEN Return(tc, w.r)
                      ELSE [tc EXCEPT !.pc = "nv_nonce", !.tpmnv = w.nvindex,
                                      !.defined = TRUE]
    /\ UNCHANGED <<tokens, keyslots, token_handlers, call, act>>

\* tpm_nv_find_and_write of the nonce; on failure err_pass_nv_defined
CreateNvNonce ==
    /\ tc.pc = "nv_nonce"
    /\ \E fails \in BOOLEAN :
          LET w == tpm_nv_find_and_write(tpms, tc.ctx, tc.tpmnonce_nv, tc.nonce, NoPin, fails)
          IN IF w.r < 0
             THEN /\ tpms' = tpm_nv_undefine(tpms, tc.ctx, tc.tpmnv)
                  /\ tc' = Return([tc EXCEPT !.tpmnv = 0], w.r)
             ELSE /\ tpms' = w.tpms
                  /\ tc' = [tc EXCEPT !.pc = "keyslot", !.tpmnonce_nv = w.nvindex]
    /\ UNCHANGED <<tokens, keyslots, token_handlers, call, act>>

\* crypt_keyslot_add_by_passphrase; on failure err_nonce_nv_defined
CreateKeyslot ==
    /\ tc.pc = "keyslot"
    /\ \E pass_ok \in BOOLEAN :
          LET k == crypt_keyslot_add_by_passphrase(keyslots, tc.keyslot, pass_ok)
          IN IF k.r < 0
             THEN /\ tpms' = UndefineBoth(tpms, tc)
                  /\ tc' = Return([tc EXCEPT !.tpmnv = 0, !.tpmnonce_nv = 0], k.r)
                  /\ UNCHANGED keyslots
             ELSE /\ keyslots' = k.keyslots
                  /\ tc' = [tc EXCEPT !.pc = "token_add", !.keyslot = k.r]
                  /\ UNCHANGED tpms
    /\ UNCHANGED <<tokens, token_handlers, call, act>>

\* tpm2_token_add; on failure err_keyslot_created
CreateTokenAdd ==
    /\ tc.pc = "token_add"
    /\ \E wr \in WriteResults :
          LET a == tpm2_token_add(tokens, token_handlers, tc.token, tc.tpmnv,
                                  tc.tpmnonce_nv, bytes_to_hex(tc.nonce),
                                  ~tc.no_tpm_pin, wr)
          IN /\ tokens' = a.tokens
             /\ token_handlers' = a.handlers
             /\ IF a.r < 0
                THEN /\ keyslots' = crypt_keyslot_destroy(keyslots, tc.keyslot).keyslots
                     /\ tpms' = UndefineBoth(tpms, tc)
                     /\ tc' = Return([tc EXCEPT !.tpmnv = 0, !.tpmnonce_nv = 0], a.r)
                ELSE /\ tc' = [tc EXCEPT !.pc = "assign", !.token = a.r]
                     /\ UNCHANGED <<keyslots, tpms>>
    /\ UNCHANGED <<call, act>>

\* crypt_token_assign_keyslot; on failure the record is deleted with
\* crypt_token_json_set(NULL), then err_keyslot_created
CreateAssign ==
    /\ tc.pc = "assign"
    /\ \E wr \in WriteResults, wr_del \in WriteResults :
          LET as == LUKS2_token_assign(tokens, keyslots, tc.keyslot, tc.token, TRUE,
                                       TRUE, wr)
              del == LUKS2_token_create(as.tokens, token_handlers, tc.token, NoJson,
                                        TRUE, Tpm2Lib, FALSE, wr_del)
          IN IF as.r < 0
             THEN /\ tokens' = del.tokens
                  /\ keyslots' = crypt_keyslot_destroy(keyslots, tc.keyslot).keyslots
                  /\ tpms' = UndefineBoth(tpms, tc)
                  /\ tc' = Return([tc EXCEPT !.tpmnv = 0, !.tpmnonce_nv = 0], as.r)
             ELSE /\ tokens' = as.tokens
                  /\ tc' = Return([tc EXCEPT !.status = IF as.r > 0
                                                        THEN @ \cup {"CREATED"} ELSE @],
                                  0)
                  /\ UNCHANGED <<keyslots, tpms>>
    /\ UNCHANGED <<token_handlers, call, act>>

\* a binding check that looks at a backend the caller names only
RemoveRefused_named_only(tk, tp, token, tcti_str, force_remove) ==
    tcti_str # NoTcti /\ ~tpm2_verify_tcti_for_token(tk, tp, token, tcti_str)
    /\ ~force_remove

\* the binding check of crypt_token_remove: TRUE when remove is refused
RemoveRefused(tk, tp, token, tcti_str, force_remove) ==
    \/ tcti_str # NoTcti /\ ~tpm2_verify_tcti_for_token(tk, tp, token, tcti_str)
       /\ ~force_remove
    \/ tcti_str = NoTcti /\ tpm2_find_tcti_for_token(tk, tp, token).tcti = NoTcti
       /\ ~force_remove

\* crypt_token_remove up to the binding check
RemoveStart ==
    \E token \in TokenIds \cup {CRYPT_ANY_TOKEN}, tpmnv \in {0, 1},
       tcti_str \in 0 .. Len(tpms), force_remove \in BOOLEAN, args_ok \in BOOLEAN :
        LET valid == args_ok /\ ~(tpmnv = 0 /\ token = CRYPT_ANY_TOKEN)
            h0 == IF tc.status = {} /\ valid
                  THEN [tc EXCEPT !.status = {"REMOVE_VALID"}, !.token = token,
                                  !.tpmnv = tpmnv, !.tcti_str = tcti_str,
                                  !.force_remove = force_remove]
                  ELSE IF tc.status = {} /\ args_ok
                  THEN [tc EXCEPT !.token = token, !.tpmnv = tpmnv,
                                  !.tcti_str = tcti_str, !.force_remove = force_remove]
                  ELSE tc
            h1 == [h0 EXCEPT !.op = "remove", !.pre = Snapshot, !.defined = FALSE,
                             !.runs = @ + 1,
                             !.token = IF h0.token = CRYPT_ANY_TOKEN
                                           /\ h0.status = {"REMOVE_VALID"}
                                       THEN tpm2_token_by_nvindex(tokens, h0.tpmnv)
                                       ELSE @]
            st == LUKS2_token_status(tokens, token_handlers, h1.token, Tpm2Lib)
            h == [h1 EXCEPT !.found = IF h1.tcti_str = NoTcti
                                      THEN tpm2_find_tcti_for_token(tokens, tpms, h1.token).tcti
                                      ELSE NoTcti]
        IN /\ tc.pc \in {"none", "done"}
           /\ tc.runs < MaxRuns
           /\ tc.status # {} => token = CRYPT_ANY_TOKEN /\ tpmnv = 0 /\ tcti_str = NoTcti
                                 /\ ~force_remove /\ args_ok
           /\ IF tc.status = {} /\ ~valid
              THEN tc' = Return(h1, -EINVAL) /\ UNCHANGED token_handlers
              ELSE IF h0.status # {"REMOVE_VALID"}
              THEN tc' = Return(h1, -EINVAL) /\ UNCHANGED token_handlers
              ELSE IF h1.token < 0
              THEN tc' = Return(h1, -EINVAL) /\ UNCHANGED token_handlers
              ELSE /\ token_handlers' = st.handlers
                   /\ tc' = IF st.info # CRYPT_TOKEN_EXTERNAL \/ st.type # "tpm2"
                            THEN Return(h1, -EINVAL)
                            ELSE IF RemoveRefused(tokens, tpms, h1.token, h1.tcti_str,
                                                  h1.force_remove)
                            THEN Return(h1, -EINVAL)
                            ELSE [h EXCEPT !.pc = "destroy", !.i = 0]
           /\ UNCHANGED <<tokens, keyslots, call, tpms, act>>

\* a remove that leaves the keyslots of the token alone
RemoveDestroy_skips ==
    /\ tc.pc = "destroy"
    /\ tc' = [tc EXCEPT !.pc = "kill"]
    /\ UNCHANGED <<tokens, keyslots, token_handlers, call, tpms, act>>

\* one round of the loop that destroys the keyslots assigned to the token
RemoveDestroy ==
    /\ tc.pc = "destroy"
    /\ LET d == crypt_keyslot_destroy(keyslots, tc.i)
       IN IF tc.i >= LUKS2_KEYSLOTS_MAX
          THEN tc' = [tc EXCEPT !.pc = "kill"] /\ UNCHANGED keyslots
          ELSE IF LUKS2_token_is_assigned(tokens, tc.i, tc.token) # 0
          THEN tc' = [tc EXCEPT !.i = @ + 1] /\ UNCHANGED keyslots
          ELSE IF d.r < 0
          THEN tc' = Return(tc, d.r) /\ UNCHANGED keyslots
          ELSE tc' = [tc EXCEPT !.i = @ + 1] /\ keyslots' = d.keyslots
    /\ UNCHANGED <<tokens, token_handlers, call, tpms, act>>

\* tpm_init and tpm2_token_kill
RemoveKill ==
    /\ tc.pc = "kill"
    /\ \E fails \in BOOLEAN :
          LET ctx == Context(tpms, IF tc.tcti_str # NoTcti THEN tc.tcti_str ELSE tc.found)
              k == tpm2_token_kill(tokens, tpms, ctx, tc.token, fails)
          IN IF ~tpm_init(tpms, ctx)
             THEN tc' = Return(tc, -EINVAL) /\ UNCHANGED <<tokens, tpms>>
             ELSE /\ tokens' = k.tokens
                  /\ tpms' = k.tpms
                  /\ tc' = Return([tc EXCEPT !.ctx = ctx,
                                             !.status = IF k.r = 0 THEN @ \cup {"REMOVED"}
                                                        ELSE @],
                                  k.r)
    /\ UNCHANGED <<keyslots, token_handlers, call, act>>

\* crypt_token_handle_free and crypt_token_handle_init: a fresh handle
HandleInit ==
    /\ tc.pc = "done"
    /\ tc' = [NoHandle EXCEPT !.runs = tc.runs]
    /\ UNCHANGED <<tokens, keyslots, token_handlers, call, tpms, act>>

\* the machines and headers the plugin runs on: every backend but the last
\* is down; the last is down, empty, or holds the secret and a nonce
TpmBackends ==
    {DownBackend, [node |-> TRUE, up |-> TRUE, nv |-> [i \in NvIndexes |-> NoNv]]}
    \cup {[node |-> TRUE, up |-> TRUE, nv |-> [i \in NvIndexes |->
                                  IF i = 1 THEN NvArea(TpmSecret, NoPin)
                                  ELSE IF i = 2 THEN NvArea(n, NoPin) ELSE NoNv]] :
             n \in TpmNonces}

Provisioned(tp) == tp[Len(tp)].nv[1].def

\* a header without tokens, or with the TPM2 token of an earlier create
\* bound to keyslot 1, which exists or was destroyed since
TpmInit ==
    /\ tpms \in {[i \in 1 .. (1 + MaxTpmDevices) |->
                    IF i = 1 + MaxTpmDevices THEN b ELSE DownBackend] : b \in TpmBackends}
    /\ \/ tokens = <<>> /\ keyslots = <<0>> /\ ~Provisioned(tpms)
       \/ /\ tokens = <<[id |-> 0, doc |-> Tpm2Doc(<<NumStr(1)>>, 1, 2,
                                                   bytes_to_hex(NonceZero), FALSE)]>>
          /\ keyslots \in {<<0, 1>>, <<0>>}
    /\ token_handlers = <<KeyringHandler>>
    /\ call = NoCall
    /\ tc = NoHandle
    /\ act = NoRequest

TpmNext ==
    \/ CreateStart \/ CreateNvPass \/ CreateNvNonce \/ CreateKeyslot
    \/ CreateTokenAdd \/ CreateAssign
    \/ RemoveStart \/ RemoveDestroy \/ RemoveKill
    \/ HandleInit

TpmSpec == TpmInit /\ [][TpmNext]_vars

(***************************************************************************)
(* Handler registry: crypt_token_register, LUKS2_token_handler_type and    *)
(* crypt_token_unload_external_all on token_handlers[]                     *)
(***************************************************************************)
\* the libraries dlopen may find: none, a complete one, one without open,
\* the smallest accepted one, one of the first ABI generation
RegistryLibs ==
    {NoLib, Symbols, Symbols \ {"open"}, {"open", "version"},
     {"open", "validate", "dump", "buffer_free"}}

FindNames == TypeNames \cup {"a/b"}

RegisterHandlers ==
    {[name |-> n, caps |-> c] : n \in FindNames \cup {NoName},
                                c \in {{"open"}, {"validate"}}}

RegistryOps == {"register", "find"}

\* the names whose load was refused so far
Failed == IF call.op \in RegistryOps THEN call.failed ELSE {}

\* crypt_token_register(handler)
Register ==
    \E handler \in RegisterHandlers :
        LET res == crypt_token_register(token_handlers, handler)
        IN /\ call.op # "unload"
           /\ token_handlers' = res.handlers
           /\ call' = [op |-> "register", name |-> handler.name, lib |-> handler.caps,
                       ret |-> res.r, found |-> FALSE, loaded |-> FALSE,
                       load |-> NoLoad, failed |-> Failed]
           /\ UNCHANGED <<tokens, keyslots, tpms, tc, act>>

\* LUKS2_token_handler_type(type) with the library the loader finds
Find ==
    \E type \in FindNames, lib \in RegistryLibs :
        LET res == LUKS2_token_handler_type(token_handlers, type, lib)
        IN /\ call.op # "unload"
           /\ token_handlers' = res.handlers
           /\ call' = [op |-> "find", name |-> type, lib |-> lib,
                       ret |-> IF res.found THEN 0 ELSE -ENOENT, found |-> res.found,
                       loaded |-> res.loaded, load |-> res.load,
                       failed |-> Failed \cup (IF res.loaded /\ res.load.r # 0
                                               THEN {type} ELSE {})]
           /\ UNCHANGED <<tokens, keyslots, tpms, tc, act>>

\* crypt_token_unload_external_all, run when the library is unloaded: the
\* external handlers' libraries are closed, the slots are left as they are
\* and no registry call follows
UnloadAll ==
    /\ call.op # "unload"
    /\ call' = [op |-> "unload",
                closed |-> {token_handlers[i].name :
                              i \in {j \in 1 .. Len(token_handlers) :
                                       token_handlers[j].version >= 2}}]
    /\ UNCHANGED <<tokens, keyslots, token_handlers, tpms, tc, act>>

RegistryInit ==
    /\ token_handlers = <<KeyringHandler>>
    /\ call = NoCall
    /\ tokens = <<>>
    /\ keyslots = <<0>>
    /\ tpms = <<>>
    /\ tc = NoHandle
    /\ act = NoRequest

RegistryNext == Register \/ Find \/ UnloadAll

RegistrySpec == RegistryInit /\ [][RegistryNext]_vars

(***************************************************************************)
(* Claims on activation                                                    *)
(***************************************************************************)
Coerced(raw) == raw > 0 \/ raw = -EINVAL \/ raw = -ENOENT

\* a request for one token whose handler was called and did not succeed
\* returns what the attempt reported
ReportedToCaller ==
    (act.pc = "done" /\ act.token # CRYPT_ANY_TOKEN /\ act.called # <<>>
     /\ act.called[1].r # 0) => act.ret = act.called[1].r

\* C2 (as stated): for an external handler every result of open/open_pin
\* other than success, Invalid or NotFound is reported as PermissionDenied,
\* and success, Invalid and NotFound are passed through unchanged; results of
\* builtin-prefixed handlers are never rewritten.
C2_OtherResultsCoerced ==
    /\ \A i \in 1 .. Len(act.called) :
          LET c == act.called[i]
          IN IF is_builtin_candidate(c.type) THEN c.r = c.raw
             ELSE IF c.raw \in {0, -EINVAL, -ENOENT} THEN c.r = c.raw
             ELSE c.r = -EPERM
    /\ ReportedToCaller

\* C2 (amended): for an external handler a result of open/open_pin that is
\* positive, Invalid or NotFound is reported as PermissionDenied and every
\* other result (success and every other negative code) is passed through
\* unchanged; results of builtin-prefixed handlers are never rewritten.
C2_ReservedResultsCoerced ==
    /\ \A i \in 1 .. Len(act.called) :
          LET c == act.called[i]
          IN IF is_builtin_candidate(c.type) THEN c.r = c.raw
             ELSE IF Coerced(c.raw) THEN c.r = -EPERM
             ELSE c.r = c.raw
    /\ ReportedToCaller

\* a request for one external token returned PermissionDenied for a handler
\* that returned NotFound
C2_Witness ==
    /\ act.pc = "done" /\ act.token # CRYPT_ANY_TOKEN /\ act.ret = -EPERM
    /\ Len(act.called) = 1
    /\ ~is_builtin_candidate(act.called[1].type)
    /\ act.called[1].raw = -ENOENT

\* C3: when the orchestrator has returned, every secret buffer a handler
\* allocated during the request was zeroed and released exactly once.
C3_BuffersReleasedOnce ==
    act.pc = "done" => \A i \in 1 .. Len(act.bufs) : act.bufs[i].freed = 1

(***************************************************************************)
(* Claims on the token store and the assignment index                      *)
(***************************************************************************)
CreateCall(c) == c.op = "create" /\ ~c.json.null
AssignCall(c) == c.op = "assign"
CopyCall(c) == c.op = "copy"

KeyslotsOf(tk, token) == ObjectGet(LUKS2_get_token_jobj(tk, token), "keyslots")

Occurrences(array, num) == Cardinality({i \in 1 .. Len(array) : array[i] = num})

\* C1: a create (json not null) that fails with -ENOSPC leaves the token
\* map as it was before the call, the record that occupied the slot
\* included.
C1_NoSpaceKeepsTokenMap ==
    [][(CreateCall(call') /\ call'.ret = -ENOSPC) => tokens' = tokens]_vars

\* C7: copy_assignments either succeeds with every token bound to
\* keyslot_from also bound to keyslot_to, or returns an error (a failed
\* commit included) with all assignment sets as before the call.
C7_CopyAtomic ==
    [][CopyCall(call') =>
        \/ /\ call'.ret >= 0
           /\ \A t \in TokenIds :
                token_is_assigned(tokens', call'.keyslot, t) = 0
                    => token_is_assigned(tokens', call'.keyslot_to, t) = 0
        \/ /\ call'.ret < 0
           /\ tokens' = tokens]_vars

\* C8: a bulk assign (token = ANY and/or keyslot = ANY) that fails (a
\* failing pair or a failing commit) leaves the header document as it was
\* before the call.
C8_BulkAssignAtomic ==
    [][(/\ AssignCall(call')
        /\ (call'.token = CRYPT_ANY_TOKEN \/ call'.keyslot = CRYPT_ANY_SLOT)
        /\ (call'.r0 < 0 \/ call'.wfail))
       => tokens' = tokens]_vars

\* C9: for an existing token t and a keyslot k, after assign(k, t, bind)
\* is_assigned(k, t) holds and k is in t's array once (an array that held k
\* is unchanged); after assign(k, t, unbind) is_assigned(k, t) does not
\* hold; unbinding a pair that was not bound changes nothing and fails only
\* when the header write fails.
C9_AssignThenIsAssigned ==
    [][(/\ AssignCall(call')
        /\ call'.token \in TokenIds /\ call'.keyslot \in KeyslotIds
        /\ HasToken(tokens, call'.token))
       => LET t == call'.token
              k == call'.keyslot
              was == LUKS2_token_is_assigned(tokens, k, t) = 0
          IN /\ call'.r0 = 0
             /\ (call'.ret < 0 => call'.wfail)
             /\ HasToken(tokens', t)
             /\ call'.assign =>
                  /\ LUKS2_token_is_assigned(tokens', k, t) = 0
                  /\ Occurrences(KeyslotsOf(tokens', t), NumStr(k)) = 1
                  /\ (was => tokens' = tokens)
             /\ ~call'.assign =>
                  /\ LUKS2_token_is_assigned(tokens', k, t) # 0
                  /\ (~was => tokens' = tokens)]_vars

\* C9 witness: an unbind of a bound pair has run
C9_Witness ==
    /\ AssignCall(call) /\ ~call.assign /\ call.ret >= 0
    /\ call.token \in TokenIds /\ call.keyslot \in KeyslotIds
    /\ HasToken(tokens, call.token)
    /\ HasKey(LUKS2_get_token_jobj(tokens, call.token), "pad")
    /\ Len(KeyslotsOf(tokens, call.token)) = 1
    /\ LUKS2_token_is_assigned(tokens, call.keyslot, call.token) # 0

\* C10: after an accepted create(id, json) the text read back from the
\* returned id is semantically equal to json; reading an id with no record
\* fails.
C10_CreateReadRoundTrip ==
    /\ (CreateCall(call) /\ call.ret >= 0) =>
          /\ LUKS2_token_json_get(tokens, call.ret).r = 0
          /\ SemEq(LUKS2_token_json_get(tokens, call.ret).json, call.json)
    /\ \A id \in TokenIds \cup {LUKS2_TOKENS_MAX} :
          ~HasToken(tokens, id) => LUKS2_token_json_get(tokens, id).r < 0

\* C10 witness: an accepted create of a text that serialization normalizes
C10_Witness ==
    /\ CreateCall(call) /\ call.ret >= 0 /\ call.token = CRYPT_ANY_TOKEN
    /\ call.json = LooseText
    /\ LUKS2_token_json_get(tokens, call.ret).json # call.json

(***************************************************************************)
(* Claims on the TPM2 plugin                                               *)
(***************************************************************************)
Records(tk) == {tk[i] : i \in 1 .. Len(tk)}

CreateDone == tc.pc = "done" /\ tc.op = "create"
RemoveDone == tc.pc = "done" /\ tc.op = "remove"

IsTpm2Token(tk, token) ==
    /\ token \in TokenIds /\ HasToken(tk, token)
    /\ ObjectGet(LUKS2_get_token_jobj(tk, token), "type") = "tpm2"

\* C5: a create that returns an error after the secret NV index was
\* defined leaves no NV index, keyslot or token record of this run behind;
\* a create that returns success leaves both NV indices, the keyslot, the
\* token record and the binding of the keyslot to the token.
C5_CreateAllOrNothing ==
    /\ (CreateDone /\ tc.ret < 0 /\ tc.defined) =>
          /\ tpms = tc.pre.tpms
          /\ keyslots = tc.pre.keyslots
          /\ Records(tokens) \subseteq Records(tc.pre.tokens)
    /\ (CreateDone /\ tc.ret = 0) =>
          /\ \E b \in 1 .. Len(tpms) :
                /\ tpms[b].nv[tc.tpmnv].def /\ ~tc.pre.tpms[b].nv[tc.tpmnv].def
                /\ tpms[b].nv[tc.tpmnonce_nv].def
                /\ ~tc.pre.tpms[b].nv[tc.tpmnonce_nv].def
          /\ \E i \in 1 .. Len(keyslots) : keyslots[i] = tc.keyslot
          /\ ~\E i \in 1 .. Len(tc.pre.keyslots) : tc.pre.keyslots[i] = tc.keyslot
          /\ IsTpm2Token(tokens, tc.token)
          /\ LUKS2_token_is_assigned(tokens, tc.keyslot, tc.token) = 0

\* no backend passes binding verification for the token: the backend the
\* caller names fails it, or discovery finds none
NoBackendVerifies(tk, tp, token, tcti_str) ==
    IF tcti_str # NoTcti THEN ~tpm2_verify_tcti_for_token(tk, tp, token, tcti_str)
    ELSE tpm2_find_tcti_for_token(tk, tp, token).tcti = NoTcti

\* C6: a remove without force-remove on a TPM2 token for which no backend
\* passes binding verification returns -EINVAL and leaves the token record,
\* the keyslots and the NV indices as they were.
C6_UnverifiedRemoveRefused ==
    (/\ RemoveDone /\ ~tc.force_remove
     /\ IsTpm2Token(tc.pre.tokens, tc.token)
     /\ NoBackendVerifies(tc.pre.tokens, tc.pre.tpms, tc.token, tc.tcti_str))
    => /\ tc.ret = -EINVAL
       /\ tokens = tc.pre.tokens
       /\ keyslots = tc.pre.keyslots
       /\ tpms = tc.pre.tpms

\* C6 witness: the handle was valid, discovery found no backend although
\* one holds both NV indices (with another nonce), the keyslot bound to the
\* token exists, and remove was refused
C6_Witness ==
    /\ RemoveDone /\ ~tc.force_remove /\ tc.status = {"REMOVE_VALID"}
    /\ IsTpm2Token(tc.pre.tokens, tc.token)
    /\ tc.tcti_str = NoTcti
    /\ NoBackendVerifies(tc.pre.tokens, tc.pre.tpms, tc.token, tc.tcti_str)
    /\ \E b \in 1 .. Len(tpms) : tpms[b].nv[1].def /\ tpms[b].nv[2].def
    /\ \E k \in KeyslotIds :
          /\ LUKS2_token_is_assigned(tokens, k, tc.token) = 0
          /\ \E i \in 1 .. Len(keyslots) : keyslots[i] = k
    /\ tc.ret = -EINVAL

(***************************************************************************)
(* Claims on the handler registry                                          *)
(***************************************************************************)
Names(th) == {th[i].name : i \in 1 .. Len(th)}

FindCall(c) == c.op = "find"
RegisterCall(c) == c.op = "register"

\* C11: a find that loads a library without the open symbol gets -EINVAL
\* from the loader, the library is closed again and the registry is as
\* before; a find of a name that is not registered, failed before or not,
\* calls the loader again whenever a slot is free, and registers the handler
\* when the library then provides open and version; a find of a registered
\* name returns it without calling the loader.
C11_FailedLoadNotCached ==
    [][FindCall(call') =>
         /\ (/\ call'.loaded /\ external_token_name_valid(call'.name)
             /\ call'.lib # NoLib /\ "open" \notin call'.lib) =>
               /\ call'.load.r = -EINVAL /\ ~call'.found
               /\ call'.load.dlopened /\ call'.load.dlclosed
               /\ token_handlers' = token_handlers
         /\ (/\ call'.name \notin Names(token_handlers)
             /\ Len(token_handlers) < LUKS2_TOKENS_MAX
             /\ ~is_builtin_candidate(call'.name)) =>
               /\ call'.loaded
               /\ (external_token_name_valid(call'.name)
                   /\ {"open", "version"} \subseteq call'.lib) =>
                     /\ call'.found
                     /\ Names(token_handlers') = Names(token_handlers) \cup {call'.name}
         /\ call'.name \in Names(token_handlers) =>
               /\ call'.found /\ ~call'.loaded
               /\ token_handlers' = token_handlers]_vars

\* C11 witness: a find loaded and registered a handler whose load had been
\* refused before
C11_Witness ==
    /\ FindCall(call) /\ call.found /\ call.loaded
    /\ call.name \in Failed
    /\ call.name \in Names(token_handlers)

(***************************************************************************)
(* Claims on the order and the end of the trial of tokens                  *)
(***************************************************************************)
AnyRequest(a) == a.token = CRYPT_ANY_TOKEN /\ a.pc # "none"

AttemptTokens(a) == [i \in 1 .. Len(a.attempts) |-> a.attempts[i].token]

Retry(r) == r = -ENOENT \/ r = -EPERM

\* C12: a request for any token attempts the tokens in ascending order of
\* their ids, whatever the order they are stored in.
C12_AnyAscendingOrder ==
    AnyRequest(act) => Ascending(AttemptTokens(act))

\* C13: a request for any token goes on to the next token only after an
\* attempt that reported -ENOENT or -EPERM, calls no handler of a token it
\* did not attempt, and ends with the result of its last attempt: an error
\* is returned as it is, a keyslot is returned unless the activation that
\* follows fails; with no token, or only attempts that reported -ENOENT or
\* -EPERM, the request fails.
C13_StopAtFirstOther ==
    AnyRequest(act) =>
        LET n == Len(act.attempts)
        IN /\ \A i \in 1 .. (n - 1) : Retry(act.attempts[i].r)
           /\ \A i \in 1 .. Len(act.called) :
                 \E j \in 1 .. n : act.attempts[j].token = act.called[i].token
           /\ AttemptTokens(act) = SubSeq(StoredIds(tokens), 1, n)
           /\ (act.pc = "open" /\ n > 0) => Retry(act.attempts[n].r)
           /\ (act.pc = "done" /\ act.segment \in {CRYPT_ANY_SEGMENT, DefaultSegment}) =>
                 /\ n < Len(tokens) => n > 0 /\ ~Retry(act.attempts[n].r)
                 /\ (n = 0 \/ Retry(act.attempts[n].r)) => act.ret < 0
                 /\ n > 0 => /\ act.attempts[n].r < 0 => act.ret = act.attempts[n].r
                             /\ act.ret >= 0 => act.ret = act.attempts[n].r

\* C13 witness: the first attempt reported -EPERM, the second opened a
\* keyslot, which the request returned, and the external token stored after
\* them was not attempted
C13_Witness ==
    /\ AnyRequest(act) /\ act.pc = "done"
    /\ Len(tokens) = 3 /\ Len(act.attempts) = 2
    /\ act.attempts[1].r = -EPERM
    /\ act.attempts[2].r >= 0 /\ act.ret = act.attempts[2].r
    /\ TypeOf(tokens[3].doc) = "ext"
    /\ Len(act.called) = 2

\* the first two of three attempts reported -ENOENT and the third opened a
\* keyslot
TwoMissesThenOpen(a) ==
    /\ AnyRequest(a) /\ a.pc = "done" /\ Len(a.attempts) = 3
    /\ a.attempts[1].r = -ENOENT /\ a.attempts[2].r = -ENOENT
    /\ a.attempts[3].r >= 0

\* C14: when the first two of three attempts of a request for any token
\* report -ENOENT and the third succeeds, the request returns the keyslot the
\* third token opened (unless the activation that follows fails), no
\* keyslot was tried and no buffer allocated for the first two tokens, and
\* no step of the request changes the tokens, the keyslots or the
\* assignments.
C14_TwoMissesThenOpen ==
    [][AnyRequest(act') =>
         /\ tokens' = tokens /\ keyslots' = keyslots
         /\ TwoMissesThenOpen(act') =>
               /\ act'.r = act'.attempts[3].r
               /\ act'.ret >= 0 => act'.ret = act'.r
               /\ \E i \in 1 .. Len(act'.tried) :
                     /\ act'.tried[i].token = act'.attempts[3].token
                     /\ act'.tried[i].keyslot = act'.r /\ act'.tried[i].r = 0
               /\ LUKS2_token_is_assigned(tokens', act'.r, act'.attempts[3].token) = 0
               /\ \A i \in 1 .. Len(act'.tried) :
                     act'.tried[i].token = act'.attempts[3].token
               /\ \A i \in 1 .. Len(act'.bufs) :
                     act'.bufs[i].token = act'.attempts[3].token]_vars

\* C14 witness: three tokens, two misses, the third opened a keyslot that
\* the request returned
C14_Witness ==
    /\ TwoMissesThenOpen(act) /\ Len(tokens) = 3
    /\ act.ret = act.attempts[3].r
    /\ Len(act.called) = 1

OtherMembers(doc) == SelectSeq(doc, LAMBDA m : m.k # "keyslots")

\* C18: while a token exists the type stored at its id does not change,
\* whatever create, assign or copy is called (create on an id that holds a
\* record included); assign and copy change nothing of a record but its
\* keyslots array.
C18_TypeImmutable ==
    [][/\ \A id \in TokenIds :
             (HasToken(tokens, id) /\ HasToken(tokens', id)) =>
                 ObjectGet(LUKS2_get_token_jobj(tokens', id), "type")
                     = ObjectGet(LUKS2_get_token_jobj(tokens, id), "type")
       /\ (AssignCall(call') \/ CopyCall(call')) =>
             /\ StoredIds(tokens') = StoredIds(tokens)
             /\ \A i \in 1 .. Len(tokens) :
                   OtherMembers(tokens'[i].doc) = OtherMembers(tokens[i].doc)]_vars

(***************************************************************************)
(* Claims on the registry's names and capacity                             *)
(***************************************************************************)
External(h) == h.version = 2

Full(th) == Len(th) = LUKS2_TOKENS_MAX

\* C15: no entry whose name starts with the builtin prefix is an external
\* handler; a find of such a name never calls the loader and leaves the
\* registry alone, and a register of such a name fails.
C15_NoExternalBuiltinName ==
    /\ [](\A i \in 1 .. Len(token_handlers) :
             is_builtin_candidate(token_handlers[i].name) => ~External(token_handlers[i]))
    /\ [][/\ (FindCall(call') /\ is_builtin_candidate(call'.name)) =>
                ~call'.loaded /\ token_handlers' = token_handlers
          /\ (RegisterCall(call') /\ is_builtin_candidate(call'.name)) =>
                call'.ret < 0 /\ token_handlers' = token_handlers]_vars

\* C15 witness: a find of a prefixed name without handler found nothing
\* although a complete library was there to load and a slot was free
C15_Witness ==
    /\ FindCall(call) /\ call.name = "luks2-other" /\ call.lib = Symbols
    /\ ~call.found /\ ~Full(token_handlers)

\* C16: the names in the registry are distinct and none is NULL; a step
\* leaves the table as it is or fills the slot right after the occupied
\* ones; a register of a name that is in the table, whatever put it there,
\* fails and leaves the table as it is.
C16_NamesUnique ==
    /\ [](\A i, j \in 1 .. Len(token_handlers) :
             /\ token_handlers[i].name # NoName
             /\ i # j => token_handlers[i].name # token_handlers[j].name)
    /\ [][/\ \/ token_handlers' = token_handlers
             \/ /\ Len(token_handlers') = Len(token_handlers) + 1
                /\ SubSeq(token_handlers', 1, Len(token_handlers)) = token_handlers
          /\ (RegisterCall(call') /\ call'.name \in Names(token_handlers)) =>
                call'.ret < 0 /\ token_handlers' = token_handlers]_vars

\* C16 witness: a register of the name of a lazily loaded external handler
\* failed, with a slot still free
C16_Witness ==
    /\ RegisterCall(call) /\ call.ret < 0 /\ "open" \in call.lib
    /\ ~Full(token_handlers)
    /\ \E i \in 1 .. Len(token_handlers) :
          token_handlers[i].name = call.name /\ External(token_handlers[i])

\* C19: with every slot occupied a register of a new name and a find of a
\* new external name fail with -ENOSPC and leave the table as it is; with a
\* slot free a successful load is stored in the first free slot.
C19_FullRegistryNoSpace ==
    [][/\ (/\ \/ RegisterCall(call') /\ call'.name # NoName /\ "open" \in call'.lib
              \/ FindCall(call')
           /\ ~is_builtin_candidate(call'.name)
           /\ Full(token_handlers) /\ call'.name \notin Names(token_handlers)) =>
             call'.ret = -ENOSPC /\ token_handlers' = token_handlers
       /\ (FindCall(call') /\ call'.loaded /\ call'.found) =>
             /\ ~Full(token_handlers)
             /\ token_handlers' = Append(token_handlers, call'.load.h)]_vars

\* C20: the loader accepts every library that provides open: whatever
\* subset of open_pin, validate, dump, buffer_free and version it lacks,
\* the handler is registered with the functions the library provides.
C20_OptionalSymbolsTolerated ==
    [][(/\ FindCall(call') /\ call'.loaded
        /\ external_token_name_valid(call'.name)
        /\ call'.lib # NoLib /\ "open" \in call'.lib) =>
          /\ call'.found
          /\ \E i \in 1 .. Len(token_handlers') :
                /\ token_handlers'[i].name = call'.name
                /\ token_handlers'[i].caps \ {"version"} = call'.lib \ {"version"}]_vars

(***************************************************************************)
(* Claims on the trial of the keyslots of a token                          *)
(***************************************************************************)
\* the keyslots tried for a token, in the order they were tried
TriedOf(a, token) == SelectSeq(a.tried, LAMBDA e : e.token = token)

\* the result of the attempt of a token
AttemptOf(a, token) ==
    a.attempts[CHOOSE i \in 1 .. Len(a.attempts) : a.attempts[i].token = token]

\* the handler of the token was called and reported success
OpenedToken(a, token) ==
    \E i \in 1 .. Len(a.called) : a.called[i].token = token /\ a.called[i].r = 0

\* the keyslot failures after which the trial may go on: the keyslot does
\* not fit (-ENOENT) or the secret does not open it (-EPERM)
Recoverable(r) == r = -ENOENT \/ r = -EPERM

\* the keyslots of a token are tried in the order of its array, the first
\* that opens is the result of the attempt and ends the trial, and an opened
\* token none of whose keyslots opens ends in a failure
KeyslotsInOrder(a, token) ==
    LET tr == TriedOf(a, token)
        arr == KeyslotsOf(tokens, token)
    IN /\ tr # <<>> => OpenedToken(a, token)
       /\ Len(tr) <= Len(arr)
       /\ \A i \in 1 .. Len(tr) : tr[i].keyslot = atoi(arr[i])
       /\ \A i \in 1 .. (Len(tr) - 1) : tr[i].r < 0
       /\ OpenedToken(a, token) =>
             /\ tr # <<>>
             /\ IF tr[Len(tr)].r >= 0
                THEN AttemptOf(a, token).r = tr[Len(tr)].keyslot
                ELSE AttemptOf(a, token).r = tr[Len(tr)].r /\ Len(tr) = Len(arr)

\* C21: the keyslots bound to an opened token are tried in assignment order,
\* the first that decrypts is the result and none is tried after it, a
\* further keyslot is tried only after a failure that is -ENOENT or -EPERM
\* (any other keyslot error ends the trial and is the result), and an opened
\* token with no keyslot decrypting ends in a failure.
C21_FirstKeyslotWins ==
    \A token \in TokenIds :
        HasToken(tokens, token) =>
            /\ KeyslotsInOrder(act, token)
            /\ \A i \in 1 .. (Len(TriedOf(act, token)) - 1) :
                  Recoverable(TriedOf(act, token)[i].r)

(***************************************************************************)
(* Claims on the checks before a handler is called                         *)
(***************************************************************************)
\* the type filter of the request is absent or names the record's type
TypeMatches(a, token) ==
    a.type = "" \/ a.type = TypeOf(LUKS2_get_token_jobj(tokens, token))

\* some keyslot of the token's array belongs to the segment of the request
MapsToSegment(a, token) ==
    \E i \in 1 .. Len(KeyslotsOf(tokens, token)) :
        \/ a.segment = CRYPT_ANY_SEGMENT
        \/ atoi(KeyslotsOf(tokens, token)[i]) \in a.segkeys

CalledFor(a, token) == \E i \in 1 .. Len(a.called) : a.called[i].token = token

\* C22: the handler of a token is called only when the type filter (if
\* given) equals the record's type and a keyslot of the token's array maps to
\* the segment; an attempt on a record of another type reports -ENOENT, and
\* so does an attempt on a token without keyslots, unbound-key mode included.
C22_FilterBeforeOpen ==
    /\ \A i \in 1 .. Len(act.called) :
          TypeMatches(act, act.called[i].token) /\ MapsToSegment(act, act.called[i].token)
    /\ \A i \in 1 .. Len(act.attempts) :
          LET token == act.attempts[i].token
          IN /\ ~TypeMatches(act, token) =>
                   act.attempts[i].r = -ENOENT /\ ~CalledFor(act, token)
             /\ (TypeMatches(act, token) /\ KeyslotsOf(tokens, token) = <<>>) =>
                   act.attempts[i].r = -ENOENT /\ ~CalledFor(act, token)
             /\ (TypeMatches(act, token) /\ ~MapsToSegment(act, token)) =>
                   act.attempts[i].r = -ENOENT /\ ~CalledFor(act, token)

\* C22 witness: in unbound-key mode a request without type filter for one
\* token that has no keyslot reported -ENOENT without calling the handler
C22_Witness ==
    /\ act.pc = "done" /\ act.token \in TokenIds /\ act.type = ""
    /\ act.segment = CRYPT_ANY_SEGMENT
    /\ Len(act.attempts) = 1 /\ act.attempts[1].token = act.token
    /\ KeyslotsOf(tokens, act.token) = <<>>
    /\ act.attempts[1].r = -ENOENT /\ act.ret = -ENOENT
    /\ act.called = <<>>

(***************************************************************************)
(* Claims on the validation of the stored record at activation             *)
(***************************************************************************)
\* the handler registered for the type of the token's record
HandlersOf(token) ==
    {token_handlers[i] : i \in {j \in 1 .. Len(token_handlers) :
        token_handlers[j].name = TypeOf(LUKS2_get_token_jobj(tokens, token))}}

\* the request passes a PIN and the handler has no open_pin
LacksOpenPin(a, h) == a.pin # NoPin /\ "open_pin" \notin h.caps

\* C23: an attempt whose handler has a validate that rejects the stored
\* record reports -ENOENT and calls neither open nor open_pin of the
\* handler; an attempt that passed the type and segment checks and whose
\* handler has no validate calls its open (or open_pin) without validation.
C23_ValidateBeforeOpen ==
    \A i \in 1 .. Len(act.attempts) :
        LET token == act.attempts[i].token
        IN /\ token \in act.rejected =>
                 /\ act.attempts[i].r = -ENOENT
                 /\ ~CalledFor(act, token)
                 /\ \A h \in HandlersOf(token) : "validate" \in h.caps
           /\ \A h \in HandlersOf(token) :
                 (/\ "validate" \notin h.caps
                  /\ TypeMatches(act, token) /\ MapsToSegment(act, token)
                  /\ ~LacksOpenPin(act, h)) =>
                     CalledFor(act, token) /\ token \notin act.rejected

\* C23 witness: a request for one TPM2 token on a backend that would have
\* returned the secret reported -ENOENT because validate rejected the record
C23_Witness ==
    /\ act.pc = "done" /\ act.token \in TokenIds /\ act.rejected = {act.token}
    /\ TypeOf(LUKS2_get_token_jobj(tokens, act.token)) = "tpm2"
    /\ tpm2_token_open_pin(tokens, tpms, act.token, act.pin, TRUE, TRUE).r = 0
    /\ act.ret = -ENOENT /\ act.called = <<>>

(***************************************************************************)
(* Claims on the steps of crypt_token_remove                               *)
(***************************************************************************)
Removing == tc.op = "remove" /\ tc.pc # "none"

Exists(ks, keyslot) == \E i \in 1 .. Len(ks) : ks[i] = keyslot

\* the keyslots the token's record named when the call began
AssignedBefore(h) ==
    {k \in KeyslotIds : LUKS2_token_is_assigned(h.pre.tokens, k, h.token) = 0}

\* the record the call began with
RecordBefore(h) == tpm2_token_read(LUKS2_token_json_get(h.pre.tokens, h.token).json)

\* the backend the call uses: the one the caller names, else the one
\* discovery finds, else the default one
BackendOf(h) ==
    Context(h.pre.tpms,
            IF h.tcti_str # NoTcti THEN h.tcti_str
            ELSE tpm2_find_tcti_for_token(h.pre.tokens, h.pre.tpms, h.token).tcti)

AtOrphan(h) ==
    /\ h.pc = "destroy" /\ h.op = "remove" /\ h.i < LUKS2_KEYSLOTS_MAX
    /\ LUKS2_token_is_assigned(tokens, h.i, h.token) = 0
    /\ ~Exists(keyslots, h.i)

\* C25: a keyslot id that the token's record names and the header no longer
\* holds does not end the remove: the loop goes on to the next keyslot id
\* with the header and the NV indices as they are, and a remove that met
\* such an id and succeeded left no keyslot of the token, no NV index and no
\* record.
C25_OrphanNotAnError ==
    /\ [][AtOrphan(tc) =>
            /\ tc'.pc = "destroy" /\ tc'.i = tc.i + 1
            /\ tokens' = tokens /\ keyslots' = keyslots /\ tpms' = tpms]_vars
    /\ [](/\ RemoveDone /\ IsTpm2Token(tc.pre.tokens, tc.token) /\ tc.ret = 0
          /\ \E k \in AssignedBefore(tc) : ~Exists(tc.pre.keyslots, k)
          => ~HasToken(tokens, tc.token)
             /\ \A k \in AssignedBefore(tc) : ~Exists(keyslots, k))

(***************************************************************************)
(* Claims on device discovery                                              *)
(***************************************************************************)
FindTctiCall(c) == c.op = "find"

\* the index of the first device node that may not be accessed
FirstInaccessible(tp) ==
    CHOOSE i \in 0 .. Len(tp) : access(tp, i) # 0 /\ \A j \in 0 .. (i - 1) : access(tp, j) = 0

\* the backends discovery may try, in order: the resident daemon, then the
\* devices below the first inaccessible index and below the cap
Candidates(tp) ==
    <<Tabrmd>> \o [i \in 1 .. Min(FirstInaccessible(tp), TPMS_NO_LIMIT) |-> DeviceTcti(i - 1)]

\* the candidates that pass the binding verification for the token
Verifying(tk, tp, token) ==
    {i \in 1 .. Len(Candidates(tp)) :
        tpm2_verify_tcti_for_token(tk, tp, token, Candidates(tp)[i])}

C27_SingleDiscoveryPass ==
    FindTctiCall(call) =>
        \A i, j \in 1 .. Len(call.probes) : i # j => call.probes[i] # call.probes[j]

(***************************************************************************)
(* Claims on the results of the TPM2 handler's open_pin                    *)
(***************************************************************************)
\* the backend passes the binding verification and the PIN the record asks
\* for was passed
ReadyToRead(tk, tp, token, tpm_pass, tcti_spec) ==
    /\ tpm2_verify_tcti_for_token(tk, tp, token, tcti_spec)
    /\ ~(tpm2_token_read(LUKS2_token_json_get(tk, token).json).pin /\ tpm_pass = NoPin)

\* the result of the read of the secret NV index
SecretRead(tk, tp, token, tpm_pass, tcti_spec) ==
    LET rd == tpm2_token_read(LUKS2_token_json_get(tk, token).json)
    IN tpm_nv_read(tp[tcti_spec], rd.nvindex, tpm_pass, rd.nvkey_size)

\* what open_pin is to return once the buffer is allocated
Mapped(tk, tp, token, tpm_pass, tcti_spec, session_ok) ==
    IF ~session_ok THEN -EACCES
    ELSE IF SecretRead(tk, tp, token, tpm_pass, tcti_spec).rc = TPM2_RC_SUCCESS THEN 0
    ELSE IF SecretRead(tk, tp, token, tpm_pass, tcti_spec).rc = TPM2_RC_AUTH_FAIL THEN -EPERM
    ELSE -EACCES

\* C28: for the token and the PIN of a request, on a backend that passes the
\* binding verification and with the PIN the record asks for, open_pin
\* returns 0 and a buffer of nvkey_size bytes when
\* the read of the secret NV index succeeds, -EPERM when the backend refuses
\* the authorization, and -EACCES for every other failure of the read and
\* when the session cannot be opened; and what the TPM2 handler returned to
\* a request is such a result.
C28_ReadOutcomeMapped ==
    /\ act.pc = "open" =>
          \A tcti_spec \in 1 .. Len(tpms), session_ok \in BOOLEAN :
              LET token == act.cur
                  o == tpm2_token_open_pin_with_tcti(tokens, tpms, token, act.pin,
                                                     tcti_spec, session_ok, TRUE)
              IN (TypeOf(LUKS2_get_token_jobj(tokens, token)) = "tpm2"
                  /\ ReadyToRead(tokens, tpms, token, act.pin, tcti_spec)) =>
                    /\ o.r = Mapped(tokens, tpms, token, act.pin, tcti_spec, session_ok)
                    /\ o.r = 0 =>
                          /\ o.alloc
                          /\ o.buffer_len
                                = tpm2_token_read(LUKS2_token_json_get(tokens, token).json).nvkey_size
                          /\ Len(SecretRead(tokens, tpms, token, act.pin, tcti_spec).data)
                                = o.buffer_len
    /\ \A i \in 1 .. Len(act.called) :
          LET c == act.called[i]
              tcti == tpm2_find_tcti_for_token(tokens, tpms, c.token).tcti
          IN (c.type = "tpm2" /\ tcti # NoTcti
              /\ ReadyToRead(tokens, tpms, c.token, act.pin, tcti)) =>
                c.raw \in {Mapped(tokens, tpms, c.token, act.pin, tcti, s) : s \in BOOLEAN}
                          \cup {-ENOMEM}

\* C28 witness: the TPM2 handler, called with a PIN the backend refuses,
\* returned -EPERM to the request
C28_Witness ==
    /\ act.pc = "done" /\ act.called # <<>>
    /\ LET c == act.called[Len(act.called)]
           tcti == tpm2_find_tcti_for_token(tokens, tpms, c.token).tcti
       IN /\ c.type = "tpm2" /\ tcti # NoTcti
          /\ ReadyToRead(tokens, tpms, c.token, act.pin, tcti)
          /\ SecretRead(tokens, tpms, c.token, act.pin, tcti).rc = TPM2_RC_AUTH_FAIL
          /\ c.raw = -EPERM /\ act.ret = -EPERM

(***************************************************************************)
(* Claims on the reuse of a handle by crypt_token_create                   *)
(***************************************************************************)
\* crypt_token_create returned success on the handle
Created == CreateDone /\ tc.ret = 0

\* this step is the start of one more crypt_token_create on the handle
CreateAgain == Created /\ tc'.op = "create" /\ tc'.runs = tc.runs + 1

\* the step changes no NV index, keyslot or token record
ProvisionsNothing == UNCHANGED <<tokens, keyslots, tpms>>

\* C29: after crypt_token_create returned success on a handle, the status
\* of the handle carries CREATED, and one more crypt_token_create on the
\* handle returns -EINVAL and changes no NV index, keyslot or token record,
\* whatever token id the record was stored at.
C29_HandleSingleUse ==
    /\ [](Created => "CREATED" \in tc.status)
    /\ [][CreateAgain => (tc'.pc = "done" /\ tc'.ret = -EINVAL /\ ProvisionsNothing)]_vars

(***************************************************************************)
(* Claims on the sign of the result of LUKS2_token_assign                  *)
(***************************************************************************)
\* the call updated every pair it was aimed at and its header write, when
\* asked for, succeeded
AssignSucceeded == call.op = "assign" /\ call.r0 >= 0 /\ ~call.wfail

\* C30: LUKS2_token_assign returns a negative value only when the operation
\* failed: when every targeted pair was updated and the commit, if asked
\* for, succeeded, the result is not negative, for a token id and for
\* token = CRYPT_ANY_TOKEN alike.
C30_NegativeOnlyOnFailure == AssignSucceeded => call.ret >= 0

(***************************************************************************)
(* Claims on the ids of the token map                                      *)
(***************************************************************************)
\* the keys of the token map, and the ids in [0, LUKS2_TOKENS_MAX) that are
\* no key of it
KeysOf(tk) == {tk[i].id : i \in 1 .. Len(tk)}
FreeIds(tk) == TokenIds \ KeysOf(tk)

\* the call was LUKS2_token_create with token = CRYPT_ANY_TOKEN and a text
CreateAny(c) == CreateCall(c) /\ c.token = CRYPT_ANY_TOKEN

\* C31: every key of the token map is an id in [0, LUKS2_TOKENS_MAX), no key
\* occurs twice and LUKS2_tokens_count is at most LUKS2_TOKENS_MAX; a
\* create(ANY, json) that succeeds stores the record at the lowest free id
\* and returns it; create(ANY, json) on a full table, create with an id
\* outside [0, LUKS2_TOKENS_MAX) and create(ANY, null) return -EINVAL and
\* leave the token map unchanged.
C31_IdsInRange ==
    /\ [](/\ KeysOf(tokens) \subseteq TokenIds
          /\ Cardinality(KeysOf(tokens)) = Len(tokens)
          /\ LUKS2_tokens_count(tokens) <= LUKS2_TOKENS_MAX)
    /\ [][/\ (CreateAny(call') /\ call'.ret >= 0) =>
                /\ call'.ret \in FreeIds(tokens)
                /\ \A id \in FreeIds(tokens) : call'.ret <= id
                /\ KeysOf(tokens') = KeysOf(tokens) \cup {call'.ret}
                /\ LUKS2_get_token_jobj(tokens', call'.ret) = Parse(call'.json)
                /\ \A id \in KeysOf(tokens) :
                      LUKS2_get_token_jobj(tokens', id) = LUKS2_get_token_jobj(tokens, id)
          /\ (CreateAny(call') /\ FreeIds(tokens) = {}) =>
                call'.ret = -EINVAL /\ tokens' = tokens
          /\ (call'.op = "create" /\ call'.token # CRYPT_ANY_TOKEN
              /\ call'.token \notin TokenIds) =>
                call'.ret = -EINVAL /\ tokens' = tokens
          /\ (call'.op = "create" /\ call'.token = CRYPT_ANY_TOKEN /\ call'.json.null) =>
                call'.ret = -EINVAL /\ tokens' = tokens]_vars

\* C31 witness: a create(ANY, json) on a map with a free id below a key
\* returned that id and the record is stored there
C31_Witness ==
    /\ CreateAny(call) /\ call.ret >= 0
    /\ HasToken(tokens, call.ret)
    /\ \E id \in KeysOf(tokens) : id > call.ret
    /\ \A id \in 0 .. (call.ret - 1) : id \in KeysOf(tokens)
    /\ call.ret > 0

(***************************************************************************)
(* Claims on a create that is rejected before the write                    *)
(***************************************************************************)
\* the text does not parse
Unparsable(json) == ~json.wf

\* the text parses and LUKS2_token_validate rejects the record
Malformed(json) == json.wf /\ LUKS2_token_validate(Parse(json))

\* the type of a record that passes LUKS2_token_validate
TextType(json) == ObjectGet(Parse(json), "type")

\* the record has a builtin-prefixed type no handler is registered for
BuiltinWithoutHandler(th, json, lib) ==
    /\ json.wf /\ ~LUKS2_token_validate(Parse(json))
    /\ is_builtin_candidate(TextType(json))
    /\ ~LUKS2_token_handler_type(th, TextType(json), lib).found

\* the handler of the record's type has validate and it rejects the text
ValidateRejects(th, json, lib, vrej) ==
    /\ json.wf /\ ~LUKS2_token_validate(Parse(json))
    /\ LUKS2_token_handler_type(th, TextType(json), lib).found
    /\ "validate" \in LUKS2_token_handler_type(th, TextType(json), lib).h.caps
    /\ vrej

RejectedBeforeWrite(th, json, lib, vrej) ==
    /\ ~json.null
    /\ \/ Unparsable(json)
       \/ Malformed(json)
       \/ BuiltinWithoutHandler(th, json, lib)
       \/ ValidateRejects(th, json, lib, vrej)

\* C32: a create(id, json) whose text does not parse, whose record fails the
\* structural validation, whose type is builtin-prefixed without a handler,
\* or whose handler's validate rejects it returns -EINVAL and leaves the
\* token map, the keyslots arrays of its records included, as it was; and
\* every create that returned -EINVAL left the token map as it was.
C32_RejectedCreateNoEffect ==
    /\ [](call.op = "none" =>
            \A token \in TokenIds \cup {CRYPT_ANY_TOKEN}, json \in JsonTexts,
               commit \in BOOLEAN, wr \in WriteResults, lib \in StoreLibs,
               vrej \in BOOLEAN :
                RejectedBeforeWrite(token_handlers, json, lib, vrej) =>
                    LET res == LUKS2_token_create(tokens, token_handlers, token, json,
                                                  commit, lib, vrej, wr)
                    IN res.r = -EINVAL /\ res.tokens = tokens)
    /\ [][(CreateCall(call') /\ call'.ret = -EINVAL) => tokens' = tokens]_vars

\* C32 witness: a create of a keyring record on a free id of a header with
\* tokens returned -EINVAL: the text parses, the record has type and
\* keyslots and the builtin handler is registered, so its validate rejected
\* the text; the record is not in the map
C32_Witness ==
    /\ CreateCall(call) /\ call.ret = -EINVAL
    /\ call.token \in TokenIds /\ ~HasToken(tokens, call.token)
    /\ tokens # <<>>
    /\ call.json.wf /\ ~LUKS2_token_validate(Parse(call.json))
    /\ TextType(call.json) = LUKS2_TOKEN_KEYRING
    /\ \E i \in 1 .. Len(token_handlers) :
          /\ token_handlers[i].name = LUKS2_TOKEN_KEYRING
          /\ "validate" \in token_handlers[i].caps

=============================================================================
